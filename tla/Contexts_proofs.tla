-------------------------- MODULE Contexts_proofs --------------------------
(***************************************************************************)
(* Proofs about the parts that a proxy's contexts go through: the poller   *)
(* that wakes them (Poller), the lists of the proxy they are kept in       *)
(* (ProxyContexts) and the inspection of what they read and write          *)
(* (AppFlow), for any descriptors, handlers, contexts, sizes and           *)
(* signatures.  The loops are recursive functions; what they keep is       *)
(* proved by the least iteration that would not keep it (Run, UpTo).       *)
(***************************************************************************)
EXTENDS Poller, ProxyContexts, AppFlow, SequenceTheorems, WellFoundedInduction, TLAPS

-----------------------------------------------------------------------------
(* Poller.                                                                 *)

\* The parts of EpInv, of any state of the poller.
Handled(e) ==
    \A s \in Socks : /\ e.db[s] \notin e.gone
                     /\ e.db[s] # NoHandler => s \in e.reg[e.db[s]]
Watching(e) ==
    /\ e.round => e.watched = {}
    /\ \A s \in e.watched \ e.again : s \notin e.pre /\ e.quiet[s] >= e.counter
PollInv(e) == e \in EpType /\ Handled(e) /\ e.counter <= IdleClicks /\ Watching(e)

LEMMA EpInvIsPollInv == (EpInv <=> PollInv(ep)) /\ (EpInv' <=> PollInv(ep'))
BY DEF EpInv, PollInv, EpTypeOK, HandlersAlive, Registered, RoundCounts, Handled, Watching

\* The handlers stay as they are.
SameHandlers(d, e) == e.db = d.db /\ e.reg = d.reg /\ e.gone = d.gone

\* Watches are only ended.
FewerWatches(d, e) ==
    /\ e.counter = d.counter /\ e.round = d.round /\ e.quiet = d.quiet /\ e.again = d.again
    /\ e.watched \subseteq d.watched /\ e.pre \subseteq d.pre

LEMMA PollInvKept ==
    ASSUME NEW d, NEW e \in EpType, PollInv(d), SameHandlers(d, e), FewerWatches(d, e)
    PROVE  PollInv(e)
BY DEF PollInv, SameHandlers, FewerWatches, Handled, Watching

LEMMA EpFields ==
    ASSUME NEW e \in EpType
    PROVE  /\ e.mon \in [Socks -> SUBSET {"in", "out"}]
           /\ e.resIn \subseteq Socks /\ e.resOut \subseteq Socks /\ e.enforce \subseteq Socks
           /\ e.pre \subseteq Socks /\ e.watched \subseteq Socks /\ e.idleSet \subseteq Socks
           /\ e.round \in BOOLEAN /\ e.counter \in 0 .. IdleClicks + 1
           /\ e.quiet \in [Socks -> 0 .. IdleClicks + 1] /\ e.again \subseteq Socks
           /\ e.db \in [Socks -> Handlers \cup {NoHandler}]
           /\ e.reg \in [Handlers -> SUBSET Socks] /\ e.gone \subseteq Handlers
BY DEF EpType

LEMMA EpInitInv == EpInit => EpInv
<1> SUFFICES ASSUME EpInit PROVE PollInv(ep)
  BY EpInvIsPollInv
<1>1. ep \in EpType
  BY IdleClicksAssumption DEF EpInit, EpType
<1>2. Handled(ep)
  BY NoHandlerAssumption DEF EpInit, Handled
<1>3. ep.counter <= IdleClicks /\ Watching(ep)
  BY IdleClicksAssumption DEF EpInit, Watching
<1> QED
  BY <1>1, <1>2, <1>3 DEF PollInv

\* Interest, rescans and enforced reads touch neither handlers nor watches.
LEMMA InterestInv ==
    ASSUME EpInv, NEW s \in Socks,
           \/ EpRescanIn(s) \/ EpRescanOut(s) \/ EpEnforceIn(s)
           \/ \E mask \in {{"in"}, {"in", "out"}} : EpMonitor(s, mask)
    PROVE  EpInv'
<1>1. PollInv(ep) /\ ep \in EpType
  BY EpInvIsPollInv DEF PollInv
<1>2. /\ ep' \in EpType /\ SameHandlers(ep, ep') /\ FewerWatches(ep, ep')
  <2>1. CASE EpRescanIn(s)
    BY <1>1, <2>1 DEF EpRescanIn, EpDel, EpType, SameHandlers, FewerWatches
  <2>2. CASE EpRescanOut(s)
    BY <1>1, <2>2 DEF EpRescanOut, EpDel, EpType, SameHandlers, FewerWatches
  <2>3. CASE EpEnforceIn(s)
    BY <1>1, <2>3 DEF EpEnforceIn, EpType, SameHandlers, FewerWatches
  <2>4. ASSUME NEW mask \in {{"in"}, {"in", "out"}}, EpMonitor(s, mask)
        PROVE  ep' \in EpType /\ SameHandlers(ep, ep') /\ FewerWatches(ep, ep')
    <3>1. \/ ep' = ep
          \/ ep' = [ep EXCEPT !.mon[s] = mask]
          \/ ep' = [[ep EXCEPT !.mon[s] = {}] EXCEPT !.resIn = @ \ {s}, !.resOut = @ \ {s}]
      BY <2>4 DEF EpMonitor, EpAdd, EpModify, EpDel
    <3>2. CASE ep' = ep
      BY <1>1, <3>2 DEF SameHandlers, FewerWatches
    <3>3. CASE ep' = [ep EXCEPT !.mon[s] = mask]
      BY <1>1, <3>3 DEF EpType, SameHandlers, FewerWatches
    <3>4. CASE ep' = [[ep EXCEPT !.mon[s] = {}] EXCEPT !.resIn = @ \ {s}, !.resOut = @ \ {s}]
      BY <1>1, <3>4 DEF EpType, SameHandlers, FewerWatches
    <3> QED
      BY <3>1, <3>2, <3>3, <3>4
  <2> QED
    BY <2>1, <2>2, <2>3, <2>4
<1> QED
  BY <1>1, <1>2, PollInvKept, EpInvIsPollInv


\* set_handler: the handler remembers the socket.
LEMMA SetHandlerInv ==
    ASSUME EpInv, NEW s \in Socks, NEW h \in Handlers, SetHandler(s, h)
    PROVE  EpInv'
<1>1. PollInv(ep) /\ ep \in EpType
  BY EpInvIsPollInv DEF PollInv
<1>2. /\ ep.db \in [Socks -> Handlers \cup {NoHandler}] /\ ep.reg \in [Handlers -> SUBSET Socks]
      /\ h \notin ep.gone /\ h # NoHandler
  BY <1>1, EpFields, NoHandlerAssumption DEF SetHandler
<1> DEFINE db == [ep.db EXCEPT ![s] = h]
           reg == [ep.reg EXCEPT ![h] = @ \cup {s}]
<1>3. ep' = [ep EXCEPT !.db = db, !.reg = reg]
  BY <1>1 DEF SetHandler, EpType
<1>4. db \in [Socks -> Handlers \cup {NoHandler}] /\ reg \in [Handlers -> SUBSET Socks]
  BY <1>2
<1>5. Handled([db |-> db, reg |-> reg, gone |-> ep.gone])
  BY <1>1, <1>2 DEF PollInv, Handled
<1> HIDE DEF db, reg
<1>6. ep' \in EpType
  BY <1>1, <1>3, <1>4 DEF EpType
<1>7. /\ ep'.db = db /\ ep'.reg = reg /\ ep'.gone = ep.gone /\ FewerWatches(ep, ep')
  BY <1>1, <1>3 DEF EpType, FewerWatches
<1>8. Handled(ep')
  BY <1>5, <1>7 DEF Handled
<1>9. ep'.counter <= IdleClicks /\ Watching(ep')
  BY <1>1, <1>7 DEF PollInv, FewerWatches, Watching
<1> QED
  BY <1>6, <1>8, <1>9, EpInvIsPollInv DEF PollInv

\* A socket that loses its handler.
LEMMA ClearedHandled ==
    ASSUME NEW d \in EpType, Handled(d), NEW e, e.reg = d.reg,
           \A s \in Socks : e.db[s] \in {d.db[s], NoHandler},
           e.gone = d.gone
    PROVE  Handled(e)
<1>1. d.gone \subseteq Handlers
  BY EpFields
<1> QED
  BY <1>1, NoHandlerAssumption DEF Handled

\* clear_handler ends the watch too.
LEMMA UnsetHandlerInv ==
    ASSUME EpInv, NEW s \in Socks, UnsetHandler(s)
    PROVE  EpInv'
<1>1. PollInv(ep) /\ ep \in EpType
  BY EpInvIsPollInv DEF PollInv
<1> DEFINE e == [ep EXCEPT !.mon = [ep.mon EXCEPT ![s] = {}],
                           !.db = [ep.db EXCEPT ![s] = NoHandler],
                           !.resIn = ep.resIn \ {s}, !.resOut = ep.resOut \ {s}]
<1>2. [EpDel(ep, s) EXCEPT !.db[s] = NoHandler, !.resIn = @ \ {s}, !.resOut = @ \ {s}] = e
  BY <1>1 DEF EpDel, EpType
<1>3. ep' = ClearIdleWatch(e, s)
  BY <1>2 DEF UnsetHandler, ClearHandler
<1>4. /\ [ep.mon EXCEPT ![s] = {}] \in [Socks -> SUBSET {"in", "out"}]
      /\ [ep.db EXCEPT ![s] = NoHandler] \in [Socks -> Handlers \cup {NoHandler}]
      /\ ep.resIn \ {s} \in SUBSET Socks /\ ep.resOut \ {s} \in SUBSET Socks
  BY <1>1, EpFields
<1>5. e \in EpType
  <2>1. ASSUME NEW mon \in [Socks -> SUBSET {"in", "out"}], NEW ri \in SUBSET Socks,
               NEW ro \in SUBSET Socks, NEW db \in [Socks -> Handlers \cup {NoHandler}]
        PROVE  [ep EXCEPT !.mon = mon, !.db = db, !.resIn = ri, !.resOut = ro] \in EpType
    BY <1>1 DEF EpType
  <2> QED
    BY <1>4, <2>1
<1>6. /\ e.db = [ep.db EXCEPT ![s] = NoHandler] /\ e.reg = ep.reg /\ e.gone = ep.gone
      /\ FewerWatches(ep, e)
  BY <1>1 DEF EpType, FewerWatches
<1> HIDE DEF e
<1>7. /\ ep' \in EpType /\ ep'.db = e.db /\ ep'.reg = e.reg /\ ep'.gone = e.gone
      /\ FewerWatches(e, ep')
  BY <1>3, <1>5 DEF ClearIdleWatch, EpType, FewerWatches
<1>8. Handled(ep')
  <2>1. \A r \in Socks : ep'.db[r] \in {ep.db[r], NoHandler}
    BY <1>1, <1>6, <1>7, EpFields
  <2> QED
    BY <1>1, <1>6, <1>7, <2>1, ClearedHandled DEF PollInv
<1>9. ep'.counter <= IdleClicks /\ Watching(ep')
  BY <1>1, <1>6, <1>7 DEF PollInv, FewerWatches, Watching
<1> QED
  BY <1>7, <1>8, <1>9, EpInvIsPollInv DEF PollInv

\* ~epoll_handler finds all sockets it is the handler of.
LEMMA DestroyHandlerInv ==
    ASSUME EpInv, NEW h \in Handlers, DestroyHandler(h)
    PROVE  EpInv'
<1>1. PollInv(ep) /\ ep \in EpType
  BY EpInvIsPollInv DEF PollInv
<1> DEFINE own == {s \in ep.reg[h] : ep.db[s] = h}
           db == [s \in Socks |-> IF s \in own THEN NoHandler ELSE ep.db[s]]
<1>2. ep' = [ep EXCEPT !.gone = ep.gone \cup {h}, !.db = db, !.resIn = ep.resIn \ own,
                       !.resOut = ep.resOut \ own, !.pre = ep.pre \ own,
                       !.watched = ep.watched \ (own \ ep.pre)]
  BY <1>1 DEF DestroyHandler, EpType
<1>3. db \in [Socks -> Handlers \cup {NoHandler}]
  BY <1>1, EpFields
<1>4. ASSUME NEW s \in Socks
      PROVE  /\ db[s] \notin ep.gone \cup {h}
             /\ db[s] # NoHandler => s \in ep.reg[db[s]]
  <2>1. ep.db[s] \notin ep.gone /\ (ep.db[s] # NoHandler => s \in ep.reg[ep.db[s]])
    BY <1>1 DEF PollInv, Handled
  <2>2. ep.db[s] = h => s \in own
    BY <2>1, NoHandlerAssumption
  <2>3. NoHandler \notin ep.gone \cup {h}
    BY <1>1, EpFields, NoHandlerAssumption
  <2> QED
    BY <2>1, <2>2, <2>3
<1> HIDE DEF own, db
<1>5. ep' \in EpType
  BY <1>1, <1>2, <1>3 DEF EpType
<1>6. /\ ep'.db = db /\ ep'.reg = ep.reg /\ ep'.gone = ep.gone \cup {h}
      /\ FewerWatches(ep, ep')
  BY <1>1, <1>2 DEF EpType, FewerWatches
<1>7. Handled(ep')
  BY <1>4, <1>6 DEF Handled
<1>8. ep'.counter <= IdleClicks /\ Watching(ep')
  BY <1>1, <1>6 DEF PollInv, FewerWatches, Watching
<1> QED
  BY <1>5, <1>7, <1>8, EpInvIsPollInv DEF PollInv

\* set_idle_watch: a new watch waits for the start of a round; one of a socket
\* that is watched is remembered as such.
LEMMA SetIdleWatchInv ==
    ASSUME EpInv, NEW s \in Socks, SetIdleWatch(s)
    PROVE  EpInv'
<1>1. PollInv(ep) /\ ep \in EpType
  BY EpInvIsPollInv DEF PollInv
<1> DEFINE q == [ep.quiet EXCEPT ![s] = 0]
           a == ep.again \cup ({s} \cap ep.watched)
<1>2. ep' = [ep EXCEPT !.pre = ep.pre \cup {s}, !.quiet = q, !.again = a]
  BY <1>1 DEF SetIdleWatch, EpType
<1>3. q \in [Socks -> 0 .. IdleClicks + 1] /\ a \subseteq Socks
  BY <1>1, EpFields, IdleClicksAssumption
<1>4. \A r \in ep.watched \ a : r # s /\ r \notin ep.again /\ q[r] = ep.quiet[r]
  BY <1>1, EpFields
<1> HIDE DEF q, a
<1>5. ep' \in EpType
  BY <1>1, <1>2, <1>3 DEF EpType
<1>6. /\ SameHandlers(ep, ep') /\ ep'.counter = ep.counter /\ ep'.round = ep.round
      /\ ep'.watched = ep.watched /\ ep'.pre = ep.pre \cup {s} /\ ep'.quiet = q
      /\ ep'.again = a
  BY <1>1, <1>2 DEF EpType, SameHandlers
<1>7. Handled(ep')
  BY <1>1, <1>6 DEF PollInv, SameHandlers, Handled
<1>8. ep'.counter <= IdleClicks /\ Watching(ep')
  BY <1>1, <1>4, <1>6 DEF PollInv, Watching
<1> QED
  BY <1>5, <1>7, <1>8, EpInvIsPollInv DEF PollInv

-----------------------------------------------------------------------------
(* wait(), part by part.                                                   *)

\* The idle sockets of a state, but for those of A, have been quiet for a whole
\* timeout.
IdleQuiet(e, A) == \A s \in e.idleSet \ A : e.quiet[s] > IdleClicks

\* click_timer_now: the sockets count with idle_counter.
LEMMA ClickInv ==
    ASSUME NEW d, PollInv(d), d.idleSet = {}
    PROVE  LET e == Click(d)
           IN  /\ e \in EpType /\ SameHandlers(d, e) /\ Watching(e) /\ e.idleSet = {}
               /\ e.again = d.again
<1> DEFINE q == [s \in Socks |-> IF d.quiet[s] <= IdleClicks THEN d.quiet[s] + 1 ELSE d.quiet[s]]
           e == [d EXCEPT !.counter = d.counter + 1, !.quiet = q]
<1>0. /\ d \in EpType /\ d.counter \in 0 .. IdleClicks + 1 /\ d.counter <= IdleClicks
      /\ d.quiet \in [Socks -> 0 .. IdleClicks + 1] /\ d.watched \subseteq Socks
  BY EpFields DEF PollInv
<1>1. Click(d) = e
  BY <1>0 DEF Click, EpType
<1>2. d.counter + 1 \in 0 .. IdleClicks + 1
  BY <1>0, IdleClicksAssumption
<1>3. q \in [Socks -> 0 .. IdleClicks + 1]
  BY <1>0, IdleClicksAssumption
<1>4. ASSUME NEW s \in Socks, d.quiet[s] >= d.counter PROVE q[s] >= d.counter + 1
  BY <1>0, <1>4, IdleClicksAssumption
<1> HIDE DEF q
<1>5. e \in EpType
  BY <1>0, <1>2, <1>3 DEF EpType
<1>6. /\ SameHandlers(d, e) /\ e.idleSet = {} /\ e.counter = d.counter + 1 /\ e.quiet = q
      /\ e.round = d.round /\ e.watched = d.watched /\ e.pre = d.pre /\ e.again = d.again
  BY <1>0 DEF EpType, SameHandlers
<1> HIDE DEF e
<1>7. Watching(e)
  BY <1>0, <1>4, <1>6 DEF PollInv, Watching
<1> QED
  BY <1>1, <1>5, <1>6, <1>7

\* process_pre_wait_rescans touches the interest only.
LEMMA PreWaitRescansInv ==
    ASSUME NEW d \in EpType, Watching(d), d.idleSet = {}
    PROVE  LET e == PreWaitRescans(d)
           IN  /\ e \in EpType /\ SameHandlers(d, e) /\ Watching(e) /\ e.idleSet = {}
               /\ e.again = d.again
<1> DEFINE m == [s \in Socks |-> CASE d.mon[s] # {} -> d.mon[s]
                                   [] s \in d.resIn -> {"in"}
                                   [] s \in d.resOut -> {"in", "out"}
                                   [] OTHER -> {}]
           e == [d EXCEPT !.mon = m, !.resIn = {}, !.resOut = {}]
<1>1. PreWaitRescans(d) = e
  BY DEF PreWaitRescans, EpType
<1>2. m \in [Socks -> SUBSET {"in", "out"}]
  <2>1. ASSUME NEW s \in Socks
        PROVE  (CASE d.mon[s] # {} -> d.mon[s]
                  [] s \in d.resIn -> {"in"}
                  [] s \in d.resOut -> {"in", "out"}
                  [] OTHER -> {}) \in SUBSET {"in", "out"}
    <3>1. d.mon[s] \in SUBSET {"in", "out"}
      BY EpFields
    <3> QED
      BY <3>1
  <2> QED
    BY <2>1
<1> HIDE DEF m
<1>3. e \in EpType
  BY <1>2 DEF EpType
<1>4. /\ SameHandlers(d, e) /\ e.idleSet = {} /\ e.counter = d.counter /\ e.quiet = d.quiet
      /\ e.round = d.round /\ e.watched = d.watched /\ e.pre = d.pre /\ e.again = d.again
  BY DEF EpType, SameHandlers
<1> HIDE DEF e
<1> QED
  BY <1>1, <1>3, <1>4 DEF Watching

\* process_pre_wait_idles: at the end of a round the watched sockets have been
\* quiet for the timeout.
LEMMA PreWaitIdlesInv ==
    ASSUME NEW d \in EpType, Watching(d), Handled(d), d.idleSet = {}
    PROVE  PollInv(PreWaitIdles(d)) /\ IdleQuiet(PreWaitIdles(d), d.again)
<1>0. /\ d.counter \in 0 .. IdleClicks + 1 /\ d.quiet \in [Socks -> 0 .. IdleClicks + 1]
      /\ d.watched \subseteq Socks /\ d.pre \subseteq Socks /\ d.round \in BOOLEAN
  BY EpFields
<1>1. CASE d.counter <= IdleClicks
  BY <1>1 DEF PreWaitIdles, PollInv, IdleQuiet
<1>2. CASE ~(d.counter <= IdleClicks) /\ d.round
  <2> DEFINE e == [d EXCEPT !.counter = 0, !.round = FALSE, !.watched = d.watched \cup d.pre,
                            !.pre = {}]
  <2>1. PreWaitIdles(d) = e
    BY <1>2 DEF PreWaitIdles, EpType
  <2>2. e \in EpType
    <3>1. 0 \in 0 .. IdleClicks + 1 /\ d.watched \cup d.pre \subseteq Socks
      BY <1>0, IdleClicksAssumption
    <3> QED
      BY <3>1 DEF EpType
  <2>3. /\ SameHandlers(d, e) /\ e.idleSet = {} /\ e.counter = 0 /\ e.quiet = d.quiet
        /\ e.round = FALSE /\ e.watched = d.watched \cup d.pre /\ e.pre = {}
    BY DEF EpType, SameHandlers
  <2> HIDE DEF e
  <2>4. Handled(e)
    BY <2>3 DEF Handled, SameHandlers
  <2>5. Watching(e) /\ e.counter <= IdleClicks
    BY <1>0, <2>3, IdleClicksAssumption DEF Watching
  <2> QED
    BY <2>1, <2>2, <2>3, <2>4, <2>5 DEF PollInv, IdleQuiet
<1>3. CASE ~(d.counter <= IdleClicks) /\ ~d.round
  <2> DEFINE e == [d EXCEPT !.counter = 0, !.round = TRUE, !.idleSet = d.idleSet \cup d.watched,
                            !.watched = {}, !.again = {}]
  <2>1. PreWaitIdles(d) = e
    BY <1>3 DEF PreWaitIdles, EpType
  <2>2. e \in EpType
    <3>1. 0 \in 0 .. IdleClicks + 1 /\ d.idleSet \cup d.watched \subseteq Socks
      BY <1>0, IdleClicksAssumption
    <3> QED
      BY <3>1 DEF EpType
  <2>3. /\ SameHandlers(d, e) /\ e.idleSet = d.watched /\ e.counter = 0 /\ e.quiet = d.quiet
        /\ e.round = TRUE /\ e.watched = {}
    BY DEF EpType, SameHandlers
  <2> HIDE DEF e
  <2>4. Handled(e)
    BY <2>3 DEF Handled, SameHandlers
  <2>5. Watching(e) /\ e.counter <= IdleClicks
    BY <2>3, IdleClicksAssumption DEF Watching
  <2>6. IdleQuiet(e, d.again)
    BY <1>0, <1>3, <2>3, IdleClicksAssumption DEF Watching, IdleQuiet
  <2> QED
    BY <2>1, <2>2, <2>4, <2>5, <2>6 DEF PollInv
<1> QED
  BY <1>1, <1>2, <1>3

\* process_epoll_events and enforced_to_inset: what was active is not watched
\* any more, and is in in_set or out_set.
LEMMA TakeEventsInv ==
    ASSUME NEW d, NEW A, NEW ready, PollInv(d), IdleQuiet(d, A)
    PROVE  LET e == TakeEvents(d, ready)
           IN  /\ PollInv(e)
               /\ \A s \in e.idleSet \ (e.inSet \cup e.outSet \cup A) : e.quiet[s] > IdleClicks
<1> DEFINE seen(s) == (ready[s] \cap d.mon[s])
                      \cup (IF d.mon[s] # {} THEN ready[s] \cap {"hup"} ELSE {})
           ins == {s \in Socks : "in" \in seen(s)}
           outs == {s \in Socks : "out" \in seen(s)} \ ins
           errs == {s \in Socks : "hup" \in seen(s)} \ (ins \cup outs)
           act == ins \cup outs
           m == [s \in Socks |-> IF s \in outs THEN {"in"} ELSE d.mon[s]]
           q == [s \in Socks |-> IF s \in act THEN 0 ELSE d.quiet[s]]
           e == [d EXCEPT !.inSet = ins \cup d.enforce, !.enforce = {}, !.outSet = outs,
                          !.errSet = errs, !.mon = m, !.pre = d.pre \ act,
                          !.watched = d.watched \ (act \ d.pre), !.quiet = q]
<1>0. /\ d \in EpType /\ d.counter \in 0 .. IdleClicks + 1 /\ d.enforce \subseteq Socks
      /\ d.quiet \in [Socks -> 0 .. IdleClicks + 1] /\ d.watched \subseteq Socks
      /\ d.idleSet \subseteq Socks /\ d.pre \subseteq Socks
      /\ d.mon \in [Socks -> SUBSET {"in", "out"}]
  BY EpFields DEF PollInv
<1>1. TakeEvents(d, ready) = e
  BY <1>0 DEF TakeEvents, EpType
<1>2. /\ ins \subseteq Socks /\ outs \subseteq Socks /\ errs \subseteq Socks
      /\ act = ins \cup outs
  OBVIOUS
<1> HIDE DEF ins, outs, errs, act
<1>3. m \in [Socks -> SUBSET {"in", "out"}] /\ q \in [Socks -> 0 .. IdleClicks + 1]
  BY <1>0, IdleClicksAssumption
<1>4. \A s \in Socks : s \notin act => q[s] = d.quiet[s]
  OBVIOUS
<1> HIDE DEF m, q
<1>5. e \in EpType
  BY <1>0, <1>2, <1>3 DEF EpType
<1>6. /\ SameHandlers(d, e) /\ e.idleSet = d.idleSet /\ e.counter = d.counter /\ e.quiet = q
      /\ e.round = d.round /\ e.watched = d.watched \ (act \ d.pre) /\ e.pre = d.pre \ act
      /\ e.inSet = ins \cup d.enforce /\ e.outSet = outs /\ e.again = d.again
  BY <1>0 DEF EpType, SameHandlers
<1> HIDE DEF e
<1>7. Handled(e)
  BY <1>6 DEF PollInv, Handled, SameHandlers
<1>8. Watching(e) /\ e.counter <= IdleClicks
  <2>1. ASSUME NEW s \in e.watched \ e.again PROVE s \notin e.pre /\ e.quiet[s] >= e.counter
    <3>1. s \in d.watched /\ s \notin d.pre /\ d.quiet[s] >= d.counter
      BY <1>6 DEF PollInv, Watching
    <3>2. s \notin act
      BY <1>6, <3>1
    <3> QED
      BY <1>0, <1>4, <1>6, <3>1, <3>2
  <2>2. e.round => e.watched = {}
    BY <1>6 DEF PollInv, Watching
  <2> QED
    BY <1>6, <2>1, <2>2 DEF PollInv, Watching
<1>9. \A s \in e.idleSet \ (e.inSet \cup e.outSet \cup A) : e.quiet[s] > IdleClicks
  BY <1>0, <1>2, <1>4, <1>6 DEF IdleQuiet
<1> QED
  BY <1>1, <1>5, <1>7, <1>8, <1>9 DEF PollInv

\* wait(): the invariant is kept, and what is reported idle was quiet.
LEMMA EpWaitInv ==
    ASSUME EpInv, NEW click \in BOOLEAN, NEW ready, EpWait(click, ready)
    PROVE  /\ EpInv'
           /\ \A s \in ep'.idleSet \ (ep'.inSet \cup ep'.outSet \cup ep.again) :
                  ep'.quiet[s] > IdleClicks
<1> DEFINE e == [ep EXCEPT !.inSet = {}, !.outSet = {}, !.errSet = {}, !.idleSet = {}]
           w == IF click THEN PreWaitIdles(PreWaitRescans(Click(e))) ELSE e
<1>1. PollInv(ep) /\ ep \in EpType
  BY EpInvIsPollInv DEF PollInv
<1>2. e \in EpType /\ SameHandlers(ep, e) /\ FewerWatches(ep, e) /\ e.idleSet = {}
  BY <1>1 DEF EpType, SameHandlers, FewerWatches
<1>3. ep' = TakeEvents(w, ready)
  BY DEF EpWait
<1> HIDE DEF e
<1>4. PollInv(e)
  BY <1>1, <1>2, PollInvKept
<1>5. PollInv(w) /\ IdleQuiet(w, ep.again)
  <2>1. CASE click
    <3> DEFINE c == Click(e)
               r == PreWaitRescans(c)
    <3>1. /\ c \in EpType /\ SameHandlers(e, c) /\ Watching(c) /\ c.idleSet = {}
          /\ c.again = ep.again
      BY <1>2, <1>4, ClickInv DEF FewerWatches
    <3> HIDE DEF c
    <3>2. /\ r \in EpType /\ SameHandlers(c, r) /\ Watching(r) /\ r.idleSet = {}
          /\ r.again = ep.again
      BY <3>1, PreWaitRescansInv
    <3> HIDE DEF r
    <3>3. Handled(r)
      BY <1>4, <3>1, <3>2 DEF PollInv, SameHandlers, Handled
    <3> QED
      BY <2>1, <3>2, <3>3, PreWaitIdlesInv DEF r, c
  <2>2. CASE ~click
    BY <1>2, <1>4, <2>2 DEF IdleQuiet
  <2> QED
    BY <2>1, <2>2
<1> HIDE DEF w
<1> QED
  BY <1>3, <1>5, TakeEventsInv, EpInvIsPollInv

\* Every step keeps the invariant, and nothing but wait() reports idle sockets.
LEMMA EpNextInv ==
    ASSUME EpInv, [EpNext]_ep
    PROVE  /\ EpInv'
           /\ \A s \in ep'.idleSet \ (ep.idleSet \cup ep'.inSet \cup ep'.outSet \cup ep.again) :
                  ep'.quiet[s] > IdleClicks
<1>1. ASSUME NEW click \in BOOLEAN, NEW ready \in [Socks -> {{}, {"in"}, {"out"}, {"hup"}}],
             EpWait(click, ready)
      PROVE  /\ EpInv'
             /\ \A s \in ep'.idleSet \ (ep.idleSet \cup ep'.inSet \cup ep'.outSet \cup ep.again) :
                    ep'.quiet[s] > IdleClicks
  BY <1>1, EpWaitInv
<1>2. ASSUME NEW h \in Handlers, DestroyHandler(h)
      PROVE  EpInv' /\ ep'.idleSet = ep.idleSet
  <2>1. ep'.idleSet = ep.idleSet
    BY <1>2 DEF DestroyHandler, EpInv, EpTypeOK, EpType
  <2> QED
    BY <1>2, <2>1, DestroyHandlerInv
<1>3. ASSUME NEW s \in Socks,
             \/ EpRescanIn(s) \/ EpRescanOut(s) \/ EpEnforceIn(s) \/ SetIdleWatch(s)
             \/ UnsetHandler(s)
             \/ \E h \in Handlers : SetHandler(s, h)
             \/ \E mask \in {{"in"}, {"in", "out"}} : EpMonitor(s, mask)
      PROVE  EpInv' /\ ep'.idleSet = ep.idleSet
  <2>1. EpInv'
    BY <1>3, InterestInv, SetIdleWatchInv, UnsetHandlerInv, SetHandlerInv
  <2>2. ep'.idleSet = ep.idleSet
    <3>1. ep \in EpType
      BY DEF EpInv, EpTypeOK
    <3>2. CASE EpRescanIn(s) \/ EpRescanOut(s) \/ EpEnforceIn(s) \/ SetIdleWatch(s)
      BY <3>1, <3>2 DEF EpRescanIn, EpRescanOut, EpEnforceIn, SetIdleWatch, EpDel, EpType
    <3>3. CASE UnsetHandler(s)
      BY <3>1, <3>3 DEF UnsetHandler, ClearHandler, ClearIdleWatch, EpDel, EpType
    <3>4. CASE \E h \in Handlers : SetHandler(s, h)
      BY <3>1, <3>4 DEF SetHandler, EpType
    <3>5. CASE \E mask \in {{"in"}, {"in", "out"}} : EpMonitor(s, mask)
      BY <3>1, <3>5 DEF EpMonitor, EpAdd, EpModify, EpDel, EpType
    <3> QED
      BY <1>3, <3>2, <3>3, <3>4, <3>5
  <2> QED
    BY <2>1, <2>2
<1>4. CASE UNCHANGED ep
  BY <1>4 DEF EpInv, EpTypeOK, HandlersAlive, Registered, RoundCounts
<1> QED
  BY <1>1, <1>2, <1>3, <1>4 DEF EpNext

LEMMA EpInvariant == EpSpec => []EpInv
<1>1. EpInv /\ [EpNext]_ep => EpInv'
  BY EpNextInv
<1> QED
  BY <1>1, EpInitInv, PTL DEF EpSpec

\* run_poll never calls a destroyed handler: what handler_db maps a socket to
\* has registered that socket, so its destructor takes it off (epoll.cpp).
THEOREM EpHandlersAlive == EpSpec => []HandlersAlive
<1>1. EpInv => HandlersAlive
  BY DEF EpInv
<1> QED
  BY <1>1, EpInvariant, PTL

\* process_pre_wait_idles reports only sockets that were quiet for more than
\* the idle timeout, for every timeout, or that were put on watch again in the
\* round in which they were watched (set_idle_watch, clear_idle_watch).
THEOREM EpIdleMeansQuiet == EpSpec => IdleMeansQuiet
<1>1. EpInv /\ [EpNext]_ep =>
        [\A s \in ep'.idleSet \ (ep.idleSet \cup ep'.inSet \cup ep'.outSet \cup ep.again) :
            ep'.quiet[s] > IdleClicks]_ep
  BY EpNextInv
<1> QED
  BY <1>1, EpInvariant, PTL DEF EpSpec, IdleMeansQuiet

\* The sets, counters and tables of the poller keep their types: idle_counter
\* and the counts of quiet clicks stay within the timeout.
THEOREM EpTypesKept == EpSpec => []EpTypeOK
<1>1. EpInv => EpTypeOK
  BY DEF EpInv
<1> QED
  BY <1>1, EpInvariant, PTL

-----------------------------------------------------------------------------
(* Loops.                                                                  *)

\* A set of natural numbers that is not empty has a least element.
LEMMA LeastOf ==
    ASSUME NEW I \in SUBSET Nat, I # {}
    PROVE  \E i \in I : \A j \in I : i <= j
<1> DEFINE R == OpToRel(<, Nat)
<1>1. IsWellFoundedOn(R, Nat)
  BY NatLessThanWellFounded
<1>2. R = {ss \in Nat \X Nat : ss[1] < ss[2]}
  BY DEF OpToRel
<1> HIDE DEF R
<1>3. PICK i \in I : \A j \in I : <<j, i>> \notin R
  BY <1>1, WFMin
<1>4. \A j \in I : ~(j < i)
  BY <1>2, <1>3
<1> QED
  BY <1>3, <1>4

\* A recursive function over 0 .. n, as a sequence of steps: where F leads.
Traces(T, n, b, F) ==
    {g \in [0 .. n -> T] : g[0] = b /\ \A i \in 1 .. n : g[i] = F[<<i, g[i - 1]>>]}
StepFcns(T, n) == [(1 .. n) \X T -> T]

\* There is one: the function a recursive definition defines exists.
LEMMA Run ==
    ASSUME NEW T, NEW n \in Nat, NEW b \in T, NEW F \in StepFcns(T, n)
    PROVE  Traces(T, n, b, F) # {}
<1> USE DEF StepFcns
<1> DEFINE Runs(m) == {g \in [0 .. m -> T] : g[0] = b /\ \A i \in 1 .. m : g[i] = F[<<i, g[i - 1]>>]}
           bad == {m \in 0 .. n : Runs(m) = {}}
<1>1. Runs(0) # {}
  <2>1. [i \in 0 .. 0 |-> b] \in Runs(0)
    OBVIOUS
  <2> QED
    BY <2>1
<1>2. ASSUME NEW m \in 1 .. n, Runs(m - 1) # {} PROVE Runs(m) # {}
  <2>1. PICK g \in [0 .. m - 1 -> T] : g[0] = b /\ \A i \in 1 .. m - 1 : g[i] = F[<<i, g[i - 1]>>]
    BY <1>2
  <2> DEFINE v == F[<<m, g[m - 1]>>]
             h == [i \in 0 .. m |-> IF i = m THEN v ELSE g[i]]
  <2>2. v \in T
    <3>1. g[m - 1] \in T
      BY <2>1
    <3> QED
      BY <3>1
  <2>3. h \in [0 .. m -> T]
    BY <2>1, <2>2
  <2>4. h[0] = b
    BY <2>1
  <2>5. ASSUME NEW i \in 1 .. m PROVE h[i] = F[<<i, h[i - 1]>>]
    <3>1. h[i - 1] = g[i - 1] /\ i \in 0 .. m
      OBVIOUS
    <3>2. i # m => i \in 1 .. m - 1
      OBVIOUS
    <3> QED
      BY <2>1, <3>1, <3>2
  <2> QED
    BY <2>3, <2>4, <2>5
<1> HIDE DEF Runs
<1>3. bad = {}
  <2> SUFFICES ASSUME bad # {} PROVE FALSE
    OBVIOUS
  <2>1. PICK m \in bad : \A j \in bad : m <= j
    <3>1. bad \in SUBSET Nat
      OBVIOUS
    <3> HIDE DEF bad
    <3> QED
      BY <3>1, LeastOf
  <2>2. m \in 1 .. n
    BY <1>1
  <2>3. m - 1 \notin bad /\ m - 1 \in 0 .. n
    BY <2>1, <2>2
  <2> QED
    BY <1>2, <2>1, <2>2, <2>3
<1>4. Runs(n) # {}
  BY <1>3
<1> QED
  BY <1>4 DEF Runs, Traces

-----------------------------------------------------------------------------
(* Induction, as the least element of the counterexamples.                 *)

\* What holds at 0 and from each number to the next holds up to n.
LEMMA UpTo ==
    ASSUME NEW n \in Nat, NEW G \in SUBSET Nat, 0 \in G,
           \A i \in 1 .. n : i - 1 \in G => i \in G
    PROVE  \A i \in 0 .. n : i \in G
<1> DEFINE bad == (0 .. n) \ G
<1> SUFFICES ASSUME bad # {} PROVE FALSE
  OBVIOUS
<1>1. bad \in SUBSET Nat
  OBVIOUS
<1>2. PICK m \in bad : \A j \in bad : m <= j
  <2> HIDE DEF bad
  <2> QED
    BY <1>1, LeastOf
<1>3. m \in 1 .. n
  BY <1>2
<1>4. m - 1 \in 0 .. n /\ m - 1 \notin bad
  BY <1>2, <1>3
<1> QED
  BY <1>2, <1>3, <1>4

-----------------------------------------------------------------------------
(* The loops of a pass.                                                    *)

LoopNames == {"read", "write", "pc", "bind", "delayed"}

\* One iteration, from all proxies that the loop may have come to.
NextOf(S, loop, side, c) == UNION {IF r.stop THEN {r} ELSE Visit(r, loop, side, c) : r \in S}

\* Visits of the contexts cs lead from T to T.
VisitsIn(T, loop, side, cs) ==
    \A r \in T, i \in 1 .. Len(cs) : ~r.stop => Visit(r, loop, side, cs[i]) \in SUBSET T

\* The sets that a loop comes to from q, one after the other.
Unrolls(g, T, q, loop, side, cs) ==
    /\ g \in [0 .. Len(cs) -> SUBSET T]
    /\ g[0] = {q} /\ EachCx(q, loop, side) = g[Len(cs)]
    /\ \A i \in 1 .. Len(cs) : g[i] = NextOf(g[i - 1], loop, side, cs[i])

\* The recursive function of EachCx takes these steps, within such a set T.
LEMMA EachCxUnrolled ==
    ASSUME NEW T, NEW q \in T, NEW loop \in LoopNames, NEW side \in PxSides,
           NEW cs \in Seq(Cxs), cs = q.list[side][LoopLists[loop]],
           VisitsIn(T, loop, side, cs)
    PROVE  \E g : Unrolls(g, T, q, loop, side, cs)
<1> DEFINE n == Len(cs)
           G(i, S) == NextOf(S, loop, side, cs[i])
           F == [x \in (1 .. n) \X SUBSET T |-> G(x[1], x[2])]
<1>0. n \in Nat
  OBVIOUS
<1>1. ASSUME NEW i \in 1 .. n, NEW S \in SUBSET T PROVE G(i, S) \in SUBSET T
  <2>1. cs[i] \in Cxs
    OBVIOUS
  <2>2. \A r \in S : (IF r.stop THEN {r} ELSE Visit(r, loop, side, cs[i])) \in SUBSET T
    BY <2>1 DEF VisitsIn
  <2> QED
    BY <2>2 DEF NextOf
<1>2. F \in [(1 .. n) \X SUBSET T -> SUBSET T]
  BY <1>1
<1>3. \A i \in 1 .. n, S \in SUBSET T : F[<<i, S>>] = G(i, S)
  OBVIOUS
<1> HIDE DEF F, n, G
<1>4. PICK g \in [0 .. n -> SUBSET T] : g[0] = {q} /\ \A i \in 1 .. n : g[i] = F[<<i, g[i - 1]>>]
  <2> DEFINE W == SUBSET T
             b == {q}
  <2>1. b \in W /\ F \in StepFcns(W, n)
    BY <1>2 DEF StepFcns
  <2> HIDE DEF W, b
  <2>2. Traces(W, n, b, F) # {}
    BY <1>0, <2>1, Run
  <2> QED
    BY <2>2 DEF W, b, Traces
<1>5. \A i \in 1 .. n : g[i] = G(i, g[i - 1])
  <2>1. \A i \in 1 .. n : g[i - 1] \in SUBSET T
    BY <1>0, <1>4
  <2> QED
    BY <1>3, <1>4, <2>1
<1> DEFINE Is(h) == h = [i \in 0 .. n |-> IF i = 0 THEN {q} ELSE G(i, h[i - 1])]
<1>6. Is(g)
  <2>1. \A i \in 0 .. n : i = 0 \/ i \in 1 .. n
    BY <1>0
  <2>2. \A i \in 0 .. n : g[i] = IF i = 0 THEN {q} ELSE G(i, g[i - 1])
    BY <1>4, <1>5, <2>1
  <2> QED
    BY <1>4, <2>2
<1>7. EachCx(q, loop, side) = (CHOOSE h : Is(h))[n]
  BY DEF EachCx, n, G, NextOf
<1> DEFINE h == CHOOSE f : Is(f)
<1>8. Is(h)
  BY <1>6, Zenon
<1> HIDE DEF h
<1>9. h = [i \in 0 .. n |-> IF i = 0 THEN {q} ELSE G(i, h[i - 1])]
  BY <1>8
<1>10. h[0] = {q} /\ \A i \in 1 .. n : h[i] = G(i, h[i - 1])
  <2>1. 0 \in 0 .. n /\ \A i \in 1 .. n : i \in 0 .. n /\ i # 0
    BY <1>0
  <2>2. \A i \in 0 .. n : h[i] = IF i = 0 THEN {q} ELSE G(i, h[i - 1])
    BY <1>9, Zenon
  <2> QED
    BY <2>1, <2>2
<1>11. h \in [0 .. n -> SUBSET T]
  <2> DEFINE H == {i \in Nat : i \in 0 .. n => h[i] \in SUBSET T}
  <2>1. 0 \in H
    BY <1>10
  <2>2. ASSUME NEW i \in 1 .. n, i - 1 \in H PROVE i \in H
    <3>1. i - 1 \in 0 .. n /\ h[i - 1] \in SUBSET T
      BY <1>0, <2>2
    <3>2. h[i] \in SUBSET T
      BY <1>1, <1>10, <3>1
    <3> QED
      BY <1>0, <3>2
  <2>3. \A i \in 0 .. n : i \in H
    <3>1. H \in SUBSET Nat
      OBVIOUS
    <3> HIDE DEF H
    <3> QED
      BY <1>0, <2>1, <2>2, <3>1, UpTo
  <2>4. \A i \in 0 .. n : h[i] \in SUBSET T
    BY <2>3
  <2>5. DOMAIN h = 0 .. n /\ h = [i \in DOMAIN h |-> h[i]]
    BY <1>9, Zenon
  <2> QED
    BY <2>4, <2>5
<1> QED
  BY <1>7, <1>10, <1>11 DEF h, G, n, Unrolls

\* What a visit of the i-th context makes of K[i - 1] is in K[i], so that the
\* loop ends in the last of these sets.
LEMMA EachCxEnds ==
    ASSUME NEW T, NEW q \in T, NEW loop \in LoopNames, NEW side \in PxSides,
           NEW cs \in Seq(Cxs), cs = q.list[side][LoopLists[loop]],
           VisitsIn(T, loop, side, cs),
           NEW K, q \in K[0],
           \A i \in 1 .. Len(cs) : \A r \in K[i - 1] :
              (IF r.stop THEN {r} ELSE Visit(r, loop, side, cs[i])) \subseteq K[i]
    PROVE  EachCx(q, loop, side) \subseteq K[Len(cs)]
<1>0. PICK g : Unrolls(g, T, q, loop, side, cs)
  BY EachCxUnrolled
<1>1. /\ g[0] = {q} /\ EachCx(q, loop, side) = g[Len(cs)]
      /\ \A i \in 1 .. Len(cs) : g[i] = NextOf(g[i - 1], loop, side, cs[i])
  BY <1>0 DEF Unrolls
<1> DEFINE n == Len(cs)
           G == {i \in Nat : i \in 0 .. n => g[i] \subseteq K[i]}
<1>2. n \in Nat
  OBVIOUS
<1>3. 0 \in G
  BY <1>1
<1>4. ASSUME NEW i \in 1 .. n, i - 1 \in G PROVE i \in G
  <2>1. i - 1 \in 0 .. n /\ g[i - 1] \subseteq K[i - 1]
    BY <1>2, <1>4
  <2>2. g[i] = NextOf(g[i - 1], loop, side, cs[i])
    BY <1>1
  <2>3. NextOf(g[i - 1], loop, side, cs[i]) \subseteq K[i]
    BY <2>1 DEF NextOf
  <2> QED
    BY <2>2, <2>3
<1>5. \A i \in 0 .. n : i \in G
  <2>1. G \in SUBSET Nat
    OBVIOUS
  <2> HIDE DEF G, n
  <2> QED
    BY <1>2, <1>3, <1>4, <2>1, UpTo
<1>6. n \in G /\ n \in 0 .. n
  BY <1>2, <1>5
<1>7. g[n] \subseteq K[n]
  BY <1>6
<1> QED
  BY <1>1, <1>7


\* A loop whose visits stay in T ends in T.
LEMMA EachCxStays ==
    ASSUME NEW T, NEW q \in T, NEW loop \in LoopNames, NEW side \in PxSides,
           NEW cs \in Seq(Cxs), cs = q.list[side][LoopLists[loop]],
           VisitsIn(T, loop, side, cs)
    PROVE  EachCx(q, loop, side) \subseteq T
<1>1. PICK g : Unrolls(g, T, q, loop, side, cs)
  BY EachCxUnrolled
<1>2. g \in [0 .. Len(cs) -> SUBSET T] /\ EachCx(q, loop, side) = g[Len(cs)]
  BY <1>1 DEF Unrolls
<1>3. Len(cs) \in 0 .. Len(cs)
  OBVIOUS
<1> QED
  BY <1>2, <1>3

-----------------------------------------------------------------------------
(* What is done to one context.                                            *)

\* A context that the proxy owns and that is as it should be.
Good(x) == x \in CxType /\ CxSound(x) /\ x.st = "live"

\* What a context may become while it is kept where it is.
Tame(x, y) == y \in CxType /\ y.st = x.st /\ y.perm = x.perm /\ (Good(x) => Good(y))

\* The proxies that differ from q in the context c, and in flags.
Of(q, c) ==
    {r \in PxType : /\ r.list = q.list /\ r.trash = q.trash
                    /\ \A d \in Cxs : d # c => r.cx[d] = q.cx[d]
                    /\ Tame(q.cx[c], r.cx[c])}

\* The context c of q replaced, and the result of the visit.
Put(q, c, x, s) == [q EXCEPT !.cx = [@ EXCEPT ![c] = x], !.stop = s]

LEMMA PutOf ==
    ASSUME NEW q \in PxType, NEW c \in Cxs, NEW x, NEW s \in BOOLEAN, Tame(q.cx[c], x)
    PROVE  Put(q, c, x, s) \in Of(q, c) /\ Put(q, c, x, s).cx[c] = x /\ Put(q, c, x, s).stop = s
<1>1. x \in CxType
  BY DEF Tame
<1> QED
  BY <1>1 DEF Put, PxType, Of

LEMMA OfTrans ==
    ASSUME NEW q \in PxType, NEW c \in Cxs, NEW r \in Of(q, c), NEW t \in Of(r, c)
    PROVE  t \in Of(q, c)
BY DEF Of, Tame

LEMMA OfSelf ==
    ASSUME NEW q \in PxType, NEW c \in Cxs
    PROVE  q \in Of(q, c)
<1>1. q.cx[c] \in CxType
  BY DEF PxType
<1> QED
  BY <1>1 DEF Of, Tame

Halted(r) == [r EXCEPT !.stop = TRUE]

LEMMA OfHalted ==
    ASSUME NEW q \in PxType, NEW c \in Cxs, NEW r \in Of(q, c)
    PROVE  Halted(r) \in Of(q, c) /\ Halted(r).cx = r.cx /\ Halted(r).stop
BY DEF Of, PxType, Halted

LEMMA OfTyped ==
    ASSUME NEW q \in PxType, NEW c \in Cxs, NEW r \in Of(q, c)
    PROVE  r \in PxType /\ r.cx[c] \in CxType /\ Tame(q.cx[c], r.cx[c])
BY DEF Of, Tame

\* Closing a context.
LEMMA ClosedTame ==
    ASSUME NEW x \in CxType
    PROVE  /\ Tame(x, Closed(x)) /\ Closed(x).fd = NoSock
           /\ Closed(x).err = x.err /\ Closed(x).opening = x.opening /\ Closed(x).due = x.due
           /\ Closed(x).mon => x.mon
<1> USE DEF Closed, CxType, CxFds, NoSock, FailedFd, LiveFd
<1>1. Closed(x) \in CxType
  <2> DEFINE y == [x EXCEPT !.leaked = x.leaked \/ x.closing = LiveFd, !.closing = x.fd,
                            !.fd = NoSock, !.mon = FALSE]
  <2>1. x.fd # NoSock => Closed(x) = y
    BY Zenon
  <2>2. y \in CxType
    OBVIOUS
  <2> QED
    BY <2>1, <2>2
<1>2. Closed(x).st = x.st /\ Closed(x).perm = x.perm
  OBVIOUS
<1>3. CxSound(x) => CxSound(Closed(x))
  BY DEF CxSound
<1> QED
  BY <1>1, <1>2, <1>3 DEF Tame, Good

LEMMA ShutdownCxOf ==
    ASSUME NEW q \in PxType, NEW c \in Cxs
    PROVE  /\ ShutdownCx(q, c) \in Of(q, c) /\ ShutdownCx(q, c).cx[c] = Closed(q.cx[c])
           /\ ShutdownCx(q, c).stop = q.stop
<1>1. q.cx[c] \in CxType /\ q.stop \in BOOLEAN
  BY DEF PxType
<1>2. ShutdownCx(q, c) = Put(q, c, Closed(q.cx[c]), q.stop)
  BY <1>1 DEF ShutdownCx, Put, PxType
<1> QED
  BY <1>1, <1>2, ClosedTame, PutOf

\* A context that was tried again, or was not.
Again(q, c) ==
    {r \in Of(q, c) : r.stop = q.stop /\ (r.cx[c] = q.cx[c] \/ r.cx[c].opening)}

LEMMA ReconnectCxOf ==
    ASSUME NEW q \in PxType, NEW c \in Cxs
    PROVE  ReconnectCx(q, c) \subseteq Again(q, c)
<1> DEFINE x == q.cx[c]
           y == Closed(x)
           z(f) == [y EXCEPT !.fd = f, !.err = FALSE, !.opening = TRUE, !.late = FALSE,
                             !.idle = FALSE, !.due = FALSE]
           s == ShutdownCx(q, c)
<1>1. x \in CxType /\ q.stop \in BOOLEAN
  BY DEF PxType
<1>2. y \in CxType /\ Tame(x, y) /\ (y.mon => x.mon) /\ y.fd = NoSock
  BY <1>1, ClosedTame DEF Tame
<1>3. s \in Of(q, c) /\ s \in PxType /\ s.cx[c] = y /\ s.stop = q.stop
  BY ShutdownCxOf DEF Of
<1>4. CASE ~(x.due /\ x.perm)
  <2>1. ReconnectCx(q, c) = {q}
    BY <1>4 DEF ReconnectCx
  <2> QED
    BY <2>1, OfSelf DEF Again
<1>5. CASE x.due /\ x.perm
  <2> SUFFICES ASSUME NEW r \in ReconnectCx(q, c) PROVE r \in Again(q, c)
    OBVIOUS
  <2> HIDE DEF y, s
  <2>0. PICK t \in ConnectCx(s, c) : r = [t EXCEPT !.cx[c].due = FALSE]
    <3>1. ReconnectCx(q, c) = {[t EXCEPT !.cx[c].due = FALSE] : t \in ConnectCx(s, c)}
      BY <1>5 DEF ReconnectCx, s
    <3> QED
      BY <3>1
  <2>1. PICK f \in {LiveFd, FailedFd} :
           t = [s EXCEPT !.cx[c] = [@ EXCEPT !.fd = f, !.err = FALSE, !.opening = TRUE,
                                     !.late = FALSE, !.idle = FALSE]]
    BY <2>0 DEF ConnectCx
  <2>2. r = Put(s, c, z(f), q.stop)
    BY <1>3, <2>0, <2>1, <1>2 DEF Put, PxType, CxType
  <2>3. Tame(y, z(f)) /\ z(f).opening
    <3>1. z(f) \in CxType
      BY <1>2 DEF CxType, CxFds, NoSock, FailedFd, LiveFd
    <3>2. z(f).st = y.st /\ z(f).perm = y.perm /\ z(f).opening /\ z(f).perm /\ z(f).mon = y.mon
      BY <1>2, <1>5 DEF CxType, Tame
    <3>3. Good(y) => Good(z(f))
      BY <1>2, <3>1, <3>2 DEF Good, CxSound, CxType, NoSock, LiveFd
    <3> QED
      BY <3>1, <3>2, <3>3 DEF Tame
  <2>4. r \in Of(s, c) /\ r.cx[c] = z(f) /\ r.stop = q.stop
    BY <1>1, <1>3, <2>2, <2>3, PutOf
  <2>5. r \in Of(q, c)
    BY <1>3, <2>4, OfTrans
  <2> QED
    BY <2>3, <2>4, <2>5 DEF Again
<1> QED
  BY <1>4, <1>5

LEMMA OnCxErrorOf ==
    ASSUME NEW q \in PxType, NEW c \in Cxs, NEW side \in PxSides, NEW l \in CxLists
    PROVE  /\ OnPcError(q, side, c) \subseteq Again(q, c)
           /\ OnCxError(q, side, l, c) \subseteq Again(q, c)
<1>1. {q} \subseteq Again(q, c)
  BY OfSelf DEF Again
<1> QED
  BY <1>1, ReconnectCxOf DEF OnPcError, OnCxError

\* Nothing happens, or the context is closed and the loop is left.
LEMMA HandleCxEventsOf ==
    ASSUME NEW q \in PxType, NEW c \in Cxs, NEW side \in PxSides, NEW l \in CxLists,
           NEW r \in HandleCxEvents(q, side, l, c)
    PROVE  r = q \/ (r \in Of(q, c) /\ r.stop /\ r.cx[c].fd = NoSock)
<1> DEFINE x == q.cx[c]
<1>1. CASE (x.opening /\ x.late) \/ x.idle \/ x.err
  <2>1. PICK t \in OnCxError(q, side, l, c) : r = Halted(ShutdownCx(t, c))
    BY <1>1 DEF HandleCxEvents, Halted
  <2>2. t \in Of(q, c) /\ t \in PxType /\ t.cx[c] \in CxType
    BY OnCxErrorOf, OfTyped DEF Again
  <2>3. ShutdownCx(t, c) \in Of(q, c) /\ ShutdownCx(t, c).cx[c].fd = NoSock
    BY <2>2, ShutdownCxOf, OfTrans, ClosedTame
  <2> QED
    BY <2>1, <2>3, OfHalted
<1>2. CASE ~((x.opening /\ x.late) \/ x.idle \/ x.err)
  BY <1>2 DEF HandleCxEvents
<1> QED
  BY <1>1, <1>2

\* A failed read or write.
LEMMA FailedCxOf ==
    ASSUME NEW q \in PxType, NEW c \in Cxs, NEW side \in PxSides, NEW l \in CxLists,
           NEW r \in FailedCx(q, side, l, c)
    PROVE  r \in Of(q, c) /\ r.stop /\ AttendedCx(r.cx[c])
<1> DEFINE s == ShutdownCx(q, c)
<1>1. PICK t \in OnCxError(s, side, l, c) : r = Halted(t)
  BY DEF FailedCx, Halted
<1>2. q.cx[c] \in CxType
  BY DEF PxType
<1>3. s \in Of(q, c) /\ s \in PxType /\ s.cx[c].fd = NoSock
  BY <1>2, ShutdownCxOf, ClosedTame, OfTyped
<1> HIDE DEF s
<1>4. t \in Of(s, c) /\ (t.cx[c] = s.cx[c] \/ t.cx[c].opening)
  BY <1>1, <1>3, OnCxErrorOf DEF Again
<1>5. t \in Of(q, c) /\ AttendedCx(t.cx[c])
  BY <1>3, <1>4, OfTrans DEF AttendedCx
<1> QED
  BY <1>1, <1>5, OfHalted

\* The visit goes on, the descriptor and the watch on it being what they were.
Calm(q, c) ==
    {r \in Of(q, c) : /\ r.stop = q.stop /\ r.cx[c].fd = q.cx[c].fd
                      /\ r.cx[c].mon = q.cx[c].mon /\ r.cx[c].err = q.cx[c].err}

LEMMA OpenedOf ==
    ASSUME NEW q \in PxType, NEW c \in Cxs
    PROVE  /\ Opened(q, c) \in Calm(q, c) /\ ~Opened(q, c).cx[c].opening
           /\ Active(q, c) \in Calm(q, c) /\ ~Active(q, c).cx[c].opening
<1> DEFINE x == q.cx[c]
           y == [x EXCEPT !.opening = FALSE, !.late = FALSE]
           z == [x EXCEPT !.opening = FALSE, !.late = FALSE, !.idle = FALSE]
<1>1. x \in CxType /\ q.stop \in BOOLEAN
  BY DEF PxType
<1>2. Opened(q, c) = Put(q, c, y, q.stop) /\ Active(q, c) = Put(q, c, z, q.stop)
  <2>1. Opened(q, c) = Put(q, c, y, q.stop)
    BY <1>1 DEF Opened, Put, PxType, CxType
  <2>2. y \in CxType /\ [y EXCEPT !.idle = FALSE] = z
    BY <1>1 DEF CxType
  <2> HIDE DEF y, z
  <2>3. [Put(q, c, y, q.stop) EXCEPT !.cx[c].idle = FALSE] = Put(q, c, z, q.stop)
    BY <2>2 DEF Put, PxType
  <2> QED
    BY <2>1, <2>3 DEF Active
<1>3. Tame(x, y) /\ y.fd = x.fd /\ y.mon = x.mon /\ y.err = x.err /\ ~y.opening
  BY <1>1 DEF Tame, Good, CxSound, CxType
<1>4. Tame(x, z) /\ z.fd = x.fd /\ z.mon = x.mon /\ z.err = x.err /\ ~z.opening
  BY <1>1 DEF Tame, Good, CxSound, CxType
<1> HIDE DEF y, z
<1> QED
  BY <1>1, <1>2, <1>3, <1>4, PutOf DEF Calm

LEMMA PeerMayBeReadyOf ==
    ASSUME NEW q \in PxType, NEW c \in Cxs, NEW r \in PeerMayBeReady(q, c)
    PROVE  r \in Calm(q, c) /\ r.cx[c].opening = q.cx[c].opening
<1> DEFINE x == q.cx[c]
           y == [x EXCEPT !.wait = FALSE]
<1>1. x \in CxType /\ q.stop \in BOOLEAN
  BY DEF PxType
<1>2. r = q \/ r = Put(q, c, y, q.stop)
  BY <1>1 DEF PeerMayBeReady, Put, PxType, CxType
<1>3. Tame(x, y) /\ y.fd = x.fd /\ y.mon = x.mon /\ y.err = x.err /\ y.opening = x.opening
  BY <1>1 DEF Tame, Good, CxSound, CxType
<1> HIDE DEF y
<1> QED
  BY <1>1, <1>2, <1>3, PutOf, OfSelf DEF Calm

\* The context c of q in error.
LEMMA ErrOf ==
    ASSUME NEW q \in PxType, NEW c \in Cxs, NEW s \in BOOLEAN,
           NEW x, x = [q.cx[c] EXCEPT !.err = TRUE]
    PROVE  Put(q, c, x, s) \in Of(q, c) /\ Put(q, c, x, s).cx[c].err /\ Put(q, c, x, s).stop = s
<1>1. q.cx[c] \in CxType
  BY DEF PxType
<1>2. Tame(q.cx[c], x) /\ x.err
  BY <1>1 DEF Tame, Good, CxSound, CxType
<1>3. /\ Put(q, c, x, s) \in Of(q, c) /\ Put(q, c, x, s).cx[c] = x /\ Put(q, c, x, s).stop = s
  BY <1>2, PutOf
<1>4. Put(q, c, x, s).cx[c].err
  BY <1>2, <1>3
<1> QED
  BY <1>3, <1>4

\* The ways out of a read or a write.
Left(q, c) == {r \in Of(q, c) : r.stop /\ AttendedCx(r.cx[c])}

LEMMA LeftByEvents ==
    ASSUME NEW q \in PxType, NEW c \in Cxs, NEW side \in PxSides, NEW l \in CxLists,
           NEW t \in Of(q, c), NEW r \in HandleCxEvents(t, side, l, c)
    PROVE  r = t \/ r \in Left(q, c)
<1>1. t \in PxType
  BY OfTyped
<1>2. r = t \/ (r \in Of(t, c) /\ r.stop /\ r.cx[c].fd = NoSock)
  BY <1>1, HandleCxEventsOf
<1> QED
  BY <1>2, OfTrans DEF Left, AttendedCx

\* A read that fails leaves the loop; after another the context is watched if
\* it is no longer opening.
LEMMA ReadOnceOf ==
    ASSUME NEW q \in PxType, NEW c \in Cxs, NEW side \in PxSides, NEW l \in CxLists,
           NEW r \in ReadOnce(q, side, l, c)
    PROVE  \/ r \in Left(q, c)
           \/ /\ r \in Calm(q, c) /\ r.cx[c].fd # NoSock
              /\ r.cx[c].opening = q.cx[c].opening \/ q.cx[c].mon
<1> DEFINE x == q.cx[c]
           bad(p) == [p.cx[c] EXCEPT !.err = TRUE]
           tried(p) ==
            IF p.cx[c].wait \/ ~p.cx[c].mon THEN {p}
            ELSE {p, Active(p, c)} \cup FailedCx([p EXCEPT !.cx[c].err = TRUE], side, l, c)
           all == IF q.cx[c].fd = NoSock THEN {[q EXCEPT !.cx[c].err = TRUE, !.stop = TRUE]}
               ELSE UNION {tried(p) : p \in PeerMayBeReady(q, c)}
<1>0. x \in CxType /\ q.stop \in BOOLEAN
  BY DEF PxType
<1>1. PICK t \in all : r \in HandleCxEvents(t, side, l, c)
  BY DEF ReadOnce
<1>2. CASE x.fd = NoSock
  <2>1. t = Put(q, c, bad(q), TRUE)
    BY <1>0, <1>1, <1>2 DEF Put, PxType, CxType
  <2>2. t \in Of(q, c) /\ t.stop /\ t.cx[c].err
    BY <2>1, ErrOf
  <2>3. t \in Left(q, c)
    BY <2>2 DEF Left, AttendedCx
  <2> QED
    BY <1>1, <2>2, <2>3, LeftByEvents
<1>3. CASE x.fd # NoSock
  <2>1. PICK p \in PeerMayBeReady(q, c) : t \in tried(p)
    BY <1>1, <1>3
  <2>2. p \in Calm(q, c) /\ p \in Of(q, c) /\ p \in PxType /\ p.cx[c].opening = x.opening
    BY PeerMayBeReadyOf, OfTyped DEF Calm
  <2>3. p.cx[c].fd = x.fd /\ p.cx[c].mon = x.mon /\ p.stop = q.stop
    BY <2>2 DEF Calm
  <2>4. CASE t = p
    BY <1>1, <1>3, <2>2, <2>3, <2>4, LeftByEvents
  <2>5. CASE t = Active(p, c) /\ p.cx[c].mon
    <3>1. t \in Calm(p, c) /\ t \in Of(p, c)
      BY <2>2, <2>5, OpenedOf DEF Calm
    <3>2. t \in Of(q, c)
      BY <2>2, <3>1, OfTrans
    <3>3. t \in Calm(q, c) /\ t.cx[c].fd # NoSock
      BY <1>3, <2>2, <3>1, <3>2 DEF Calm
    <3> QED
      BY <1>1, <2>3, <2>5, <3>2, <3>3, LeftByEvents
  <2>6. CASE t \in FailedCx([p EXCEPT !.cx[c].err = TRUE], side, l, c)
    <3> DEFINE e == Put(p, c, bad(p), p.stop)
    <3>1. p.cx[c] \in CxType /\ p.stop \in BOOLEAN
      BY <2>2 DEF PxType
    <3>2. [p EXCEPT !.cx[c].err = TRUE] = e
      BY <2>2, <3>1 DEF Put, PxType, CxType
    <3>3. e \in Of(p, c)
      BY <2>2, <3>1, ErrOf
    <3> HIDE DEF e
    <3>4. e \in Of(q, c) /\ e \in PxType
      BY <2>2, <3>3, OfTrans, OfTyped
    <3>5. t \in Of(e, c) /\ t.stop /\ AttendedCx(t.cx[c])
      BY <2>6, <3>2, <3>4, FailedCxOf
    <3>6. t \in Of(q, c) /\ t \in Left(q, c)
      BY <3>4, <3>5, OfTrans DEF Left
    <3> QED
      BY <1>1, <3>6, LeftByEvents
  <2> QED
    BY <2>1, <2>4, <2>5, <2>6
<1> QED
  BY <1>2, <1>3

\* A write that fails leaves the loop.
LEMMA WriteOnceOf ==
    ASSUME NEW q \in PxType, NEW c \in Cxs, NEW side \in PxSides, NEW l \in CxLists,
           NEW r \in WriteOnce(q, side, l, c)
    PROVE  r \in Left(q, c) \/ (r \in Calm(q, c) /\ r.cx[c].fd = LiveFd)
<1> DEFINE x == q.cx[c]
           bad == [q.cx[c] EXCEPT !.err = TRUE]
           failed == IF q.cx[c].fd = NoSock THEN {[q EXCEPT !.cx[c].err = TRUE, !.stop = TRUE]}
                  ELSE FailedCx(q, side, l, c)
<1>0. x \in CxType /\ q.stop \in BOOLEAN
  BY DEF PxType
<1>1. CASE \E t \in failed : r \in HandleCxEvents(t, side, l, c)
  <2>1. PICK t \in failed : r \in HandleCxEvents(t, side, l, c)
    BY <1>1
  <2>2. t \in Of(q, c) /\ t \in Left(q, c)
    <3>1. CASE x.fd = NoSock
      <4>1. t = Put(q, c, bad, TRUE)
        BY <1>0, <2>1, <3>1 DEF Put, PxType, CxType
      <4> QED
        BY <4>1, ErrOf DEF Left, AttendedCx
    <3>2. CASE x.fd # NoSock
      BY <2>1, <3>2, FailedCxOf DEF Left
    <3> QED
      BY <3>1, <3>2
  <2> QED
    BY <2>1, <2>2, LeftByEvents
<1>2. CASE x.fd = LiveFd /\ r \in {q, Active(q, c)}
  <2>1. q \in Calm(q, c)
    BY OfSelf DEF Calm
  <2> QED
    BY <1>2, <2>1, OpenedOf DEF Calm
<1>3. r \in UNION {HandleCxEvents(t, side, l, c) : t \in failed}
        \/ r \in {t \in {q, Active(q, c)} : q.cx[c].fd = LiveFd}
  BY Zenon DEF WriteOnce
<1> HIDE DEF failed
<1>4. (\E t \in failed : r \in HandleCxEvents(t, side, l, c)) \/ (x.fd = LiveFd /\ r \in {q, Active(q, c)})
  BY <1>3
<1> QED
  BY <1>1, <1>2, <1>4

\* A permanent context after a half of its visit that did not leave the loop.
Ready(x) == ~x.err /\ ~x.opening /\ (x.fd = LiveFd => x.mon)

LEMMA OnPcRestoreOf ==
    ASSUME NEW q \in PxType, NEW c \in Cxs, ~q.cx[c].err, NEW r, r = OnPcRestore(q, c)
    PROVE  r \in Of(q, c) /\ r.stop = q.stop /\ Ready(r.cx[c]) /\ r.cx[c].fd = q.cx[c].fd
<1> DEFINE p == Opened(q, c)
           x == p.cx[c]
           y == [x EXCEPT !.mon = (x.fd = LiveFd)]
<1>1. p \in Calm(q, c) /\ p \in PxType /\ ~x.opening
  BY OpenedOf DEF Calm, Of
<1>2. p \in Of(q, c) /\ p.stop = q.stop /\ x.fd = q.cx[c].fd /\ ~x.err /\ x \in CxType
  BY <1>1 DEF Calm, PxType
<1> HIDE DEF p
<1>3. r = Put(p, c, y, q.stop)
  BY <1>1, <1>2 DEF OnPcRestore, WatchCx, Put, PxType, CxType, p
<1>4. Tame(x, y) /\ Ready(y) /\ y.fd = x.fd
  BY <1>1, <1>2 DEF Tame, Good, CxSound, CxType, Ready
<1> HIDE DEF y
<1>5. r \in Of(p, c) /\ r.cx[c] = y /\ r.stop = q.stop
  BY <1>1, <1>2, <1>3, <1>4, PutOf DEF PxType
<1> QED
  BY <1>2, <1>4, <1>5, OfTrans

LEMMA OnPcErrorLeft ==
    ASSUME NEW q \in PxType, NEW c \in Cxs, NEW side \in PxSides, NEW t \in Left(q, c),
           NEW r \in OnPcError(t, side, c)
    PROVE  r \in Left(q, c)
<1>1. t \in Of(q, c) /\ t \in PxType /\ t.stop /\ AttendedCx(t.cx[c])
  BY OfTyped DEF Left
<1>2. r \in Of(t, c) /\ r.stop = t.stop /\ (r.cx[c] = t.cx[c] \/ r.cx[c].opening)
  <2>1. "pc" \in CxLists
    BY DEF CxLists
  <2> QED
    BY <1>1, <2>1, OnCxErrorOf DEF Again
<1>3. r \in Of(q, c) /\ AttendedCx(r.cx[c])
  BY <1>1, <1>2, OfTrans DEF AttendedCx
<1> QED
  BY <1>1, <1>2, <1>3 DEF Left

\* A half of a visit to a context in error.
LEMMA PcHalfInError ==
    ASSUME NEW q \in PxType, NEW c \in Cxs, NEW side \in PxSides, q.cx[c].err,
           NEW t, t \in IF q.cx[c].due THEN OnPcError(q, side, c) ELSE {q}
    PROVE  Halted(t) \in Left(q, c)
<1>1. t \in Again(q, c)
  <2>1. "pc" \in CxLists /\ {q} \subseteq Again(q, c)
    BY OfSelf DEF CxLists, Again
  <2> QED
    BY <2>1, OnCxErrorOf
<1>2. t \in Of(q, c) /\ AttendedCx(t.cx[c])
  BY <1>1 DEF Again, AttendedCx
<1> QED
  BY <1>2, OfHalted DEF Left

\* After the half that reads.
LEMMA PcRead ==
    ASSUME NEW q \in PxType, NEW c \in Cxs, NEW side \in PxSides, AttendedCx(q.cx[c]), ~q.stop,
           NEW r \in PcHalf(q, side, c, ReadOnce)
    PROVE  r \in Left(q, c) \/ (r \in Of(q, c) /\ ~r.stop /\ Ready(r.cx[c]))
<1>0. "pc" \in CxLists
  BY DEF CxLists
<1>1. CASE q.cx[c].err
  <2>1. PICK t : t \in (IF q.cx[c].due THEN OnPcError(q, side, c) ELSE {q}) /\ r = Halted(t)
    BY <1>1 DEF PcHalf, Halted
  <2> QED
    BY <1>1, <2>1, PcHalfInError
<1>2. CASE ~q.cx[c].err
  <2>1. PICK t \in ReadOnce(q, side, "pc", c) :
           r \in IF t.stop THEN OnPcError(t, side, c)
                 ELSE IF t.cx[c].opening THEN {OnPcRestore(t, c)} ELSE {t}
    BY <1>2 DEF PcHalf
  <2>2. CASE t \in Left(q, c)
    <3>1. r \in OnPcError(t, side, c)
      BY <2>1, <2>2 DEF Left
    <3> QED
      BY <2>2, <3>1, OnPcErrorLeft
  <2>3. CASE /\ t \in Calm(q, c) /\ t.cx[c].fd # NoSock
             /\ t.cx[c].opening = q.cx[c].opening \/ q.cx[c].mon
    <3>1. /\ t \in Of(q, c) /\ t \in PxType /\ t.stop = q.stop /\ t.cx[c].mon = q.cx[c].mon
          /\ ~t.cx[c].err /\ t.cx[c].fd = q.cx[c].fd
      BY <1>2, <2>3, OfTyped DEF Calm
    <3>2. CASE t.cx[c].opening
      <4>1. r = OnPcRestore(t, c)
        BY <2>1, <3>1, <3>2
      <4>2. r \in Of(t, c) /\ r.stop = t.stop /\ Ready(r.cx[c])
        BY <3>1, <4>1, OnPcRestoreOf
      <4> QED
        BY <3>1, <4>2, OfTrans
    <3>3. CASE ~t.cx[c].opening
      <4>1. r = t
        BY <2>1, <3>1, <3>3
      <4>2. t.cx[c].mon
        BY <1>2, <2>3, <3>1, <3>3 DEF AttendedCx
      <4> QED
        BY <3>1, <3>3, <4>1, <4>2 DEF Ready
    <3> QED
      BY <3>2, <3>3
  <2> QED
    BY <1>0, <2>2, <2>3, ReadOnceOf
<1> QED
  BY <1>1, <1>2

\* After the half that writes.
LEMMA PcWrite ==
    ASSUME NEW q \in PxType, NEW c \in Cxs, NEW side \in PxSides, Ready(q.cx[c]), ~q.stop,
           NEW r \in PcHalf(q, side, c, WriteOnce)
    PROVE  r \in Of(q, c) /\ AttendedCx(r.cx[c])
<1>0. "pc" \in CxLists
  BY DEF CxLists
<1>1. ~q.cx[c].err
  BY DEF Ready
<1>2. PICK t \in WriteOnce(q, side, "pc", c) :
         r \in IF t.stop THEN OnPcError(t, side, c)
               ELSE IF t.cx[c].opening THEN {OnPcRestore(t, c)} ELSE {t}
  BY <1>1 DEF PcHalf
<1>3. CASE t \in Left(q, c)
  <2>1. r \in OnPcError(t, side, c)
    BY <1>2, <1>3 DEF Left
  <2>2. r \in Left(q, c)
    BY <1>3, <2>1, OnPcErrorLeft
  <2> QED
    BY <2>2 DEF Left
<1>4. CASE t \in Calm(q, c) /\ t.cx[c].fd = LiveFd
  <2>1. /\ t \in Of(q, c) /\ t \in PxType /\ t.stop = q.stop /\ t.cx[c].mon = q.cx[c].mon
        /\ ~t.cx[c].err /\ t.cx[c].fd = q.cx[c].fd
    BY <1>1, <1>4, OfTyped DEF Calm
  <2>2. CASE t.cx[c].opening
    <3>1. r = OnPcRestore(t, c)
      BY <1>2, <2>1, <2>2
    <3>2. r \in Of(t, c) /\ Ready(r.cx[c]) /\ r.cx[c].fd = LiveFd
      BY <1>4, <2>1, <3>1, OnPcRestoreOf
    <3> QED
      BY <2>1, <3>2, OfTrans DEF Ready, AttendedCx
  <2>3. CASE ~t.cx[c].opening
    <3>1. r = t /\ t.cx[c].mon
      BY <1>2, <1>4, <2>1, <2>3 DEF Ready
    <3> QED
      BY <2>1, <3>1 DEF AttendedCx
  <2> QED
    BY <2>2, <2>3
<1> QED
  BY <1>0, <1>3, <1>4, WriteOnceOf

\* A visit leaves a permanent context attended, if it was.
LEMMA PcVisitOf ==
    ASSUME NEW q \in PxType, NEW c \in Cxs, NEW side \in PxSides, AttendedCx(q.cx[c]), ~q.stop,
           NEW r \in PcVisit(q, side, c)
    PROVE  r \in Of(q, c) /\ AttendedCx(r.cx[c])
<1>1. PICK t \in PcHalf(q, side, c, ReadOnce) :
         r \in IF t.stop THEN {t} ELSE PcHalf(t, side, c, WriteOnce)
  BY DEF PcVisit
<1>2. CASE t \in Left(q, c)
  BY <1>1, <1>2 DEF Left
<1>3. CASE t \in Of(q, c) /\ ~t.stop /\ Ready(t.cx[c])
  <2>1. t \in PxType /\ r \in PcHalf(t, side, c, WriteOnce)
    BY <1>1, <1>3, OfTyped
  <2>2. r \in Of(t, c) /\ AttendedCx(r.cx[c])
    BY <1>3, <2>1, PcWrite
  <2> QED
    BY <1>3, <2>2, OfTrans
<1> QED
  BY <1>1, <1>2, <1>3, PcRead

-----------------------------------------------------------------------------
(* What keeps a proxy sound.                                               *)

LEMMA ShelfIs ==
    ASSUME NEW q, NEW side \in PxSides, NEW l \in CxLists
    PROVE  /\ <<side, l>> \in Shelves /\ <<side, l>> # Trash
           /\ Shelf(q, <<side, l>>) = q.list[side][l]
BY DEF PxSides, CxLists, Shelves, Trash, Shelf

LEMMA TrashIs ==
    ASSUME NEW q
    PROVE  Trash \in Shelves /\ Shelf(q, Trash) = q.trash
BY DEF Shelves, Shelf

\* A shelf is a list or the trash can.
LEMMA ShelfCases ==
    ASSUME NEW k \in Shelves
    PROVE  k = Trash \/ \E side \in PxSides, l \in CxLists : k = <<side, l>>
BY DEF Shelves

LEMMA ShelfTyped ==
    ASSUME NEW q \in PxType, NEW k \in Shelves
    PROVE  Shelf(q, k) \in Seq(Cxs) /\ OnShelf(q, k) \subseteq Cxs
<1>1. Shelf(q, k) \in Seq(Cxs)
  <2>1. CASE k = Trash
    BY <2>1, TrashIs DEF PxType
  <2>2. CASE \E side \in PxSides, l \in CxLists : k = <<side, l>>
    BY <2>2, ShelfIs DEF PxType
  <2> QED
    BY <2>1, <2>2, ShelfCases
<1> QED
  BY <1>1 DEF OnShelf, Range

\* A context of a list is there alone, and the proxy owns it.
LEMMA ListedOnce ==
    ASSUME NEW q, PxSound(q), NEW side \in PxSides, NEW l \in CxLists,
           NEW c \in Range(q.list[side][l])
    PROVE  /\ c \in Cxs /\ Good(q.cx[c]) /\ q.cx[c].perm = (l = "pc") /\ c \notin OnShelf(q, Trash)
           /\ \A s \in PxSides, m \in CxLists : c \in Range(q.list[s][m]) => s = side /\ m = l
<1> DEFINE k == <<side, l>>
<1>1. q \in PxType /\ KeptOnce(q) /\ ShelvedRight(q) /\ \A d \in Cxs : CxSound(q.cx[d])
  BY DEF PxSound
<1>2. k \in Shelves /\ k # Trash /\ OnShelf(q, k) = Range(q.list[side][l]) /\ Trash \in Shelves
  BY ShelfIs, TrashIs DEF OnShelf
<1>3. c \in Cxs
  BY <1>1, <1>2, ShelfTyped
<1>4. q.cx[c].st = "live"
  BY <1>1, <1>2, <1>3 DEF KeptOnce
<1>5. Good(q.cx[c])
  BY <1>1, <1>3, <1>4 DEF Good, PxType
<1>6. q.cx[c].perm = (l = "pc")
  BY <1>1 DEF ShelvedRight
<1>7. c \notin OnShelf(q, Trash)
  BY <1>1, <1>2 DEF KeptOnce
<1>8. ASSUME NEW s \in PxSides, NEW m \in CxLists, c \in Range(q.list[s][m]) PROVE s = side /\ m = l
  <2>1. <<s, m>> \in Shelves /\ OnShelf(q, <<s, m>>) = Range(q.list[s][m])
    BY ShelfIs DEF OnShelf
  <2>2. <<s, m>> = k
    BY <1>1, <1>2, <1>8, <2>1 DEF KeptOnce
  <2> QED
    BY <2>2
<1> QED
  BY <1>3, <1>5, <1>6, <1>7, <1>8

\* A tame change of a context in a list, after which a permanent one is attended.
LEMMA OneChanged ==
    ASSUME NEW q, PxSound(q), NEW side \in PxSides, NEW l \in CxLists,
           NEW c \in Range(q.list[side][l]), NEW r \in Of(q, c),
           l = "pc" => AttendedCx(r.cx[c])
    PROVE  PxSound(r) /\ r.list = q.list
<1>1. q \in PxType /\ KeptOnce(q) /\ ShelvedRight(q) /\ AllAttended(q) /\ \A d \in Cxs : CxSound(q.cx[d])
  BY DEF PxSound
<1>2. /\ c \in Cxs /\ Good(q.cx[c]) /\ q.cx[c].perm = (l = "pc") /\ c \notin OnShelf(q, Trash)
      /\ \A s \in PxSides, m \in CxLists : c \in Range(q.list[s][m]) => s = side /\ m = l
  BY ListedOnce
<1>3. /\ r \in PxType /\ r.list = q.list /\ r.trash = q.trash
      /\ \A d \in Cxs : d # c => r.cx[d] = q.cx[d]
      /\ Tame(q.cx[c], r.cx[c])
  BY DEF Of
<1>4. /\ \A d \in Cxs : r.cx[d].st = q.cx[d].st /\ r.cx[d].perm = q.cx[d].perm
      /\ Good(r.cx[c])
  BY <1>2, <1>3 DEF Tame
<1>5. \A k : Shelf(r, k) = Shelf(q, k) /\ OnShelf(r, k) = OnShelf(q, k)
  BY <1>3 DEF Shelf, OnShelf
<1>6. KeptOnce(r)
  <2>1. {d \in Cxs : r.cx[d].st = "live"} = {d \in Cxs : q.cx[d].st = "live"}
    BY <1>4
  <2> QED
    BY <1>1, <1>5, <2>1 DEF KeptOnce
<1>7. \A k \in Shelves : OnShelf(q, k) \subseteq Cxs
  BY <1>1, ShelfTyped
<1>8. \A s \in PxSides, m \in CxLists : Range(q.list[s][m]) \subseteq Cxs
  BY <1>7, ShelfIs DEF OnShelf
<1>9. AllAttended(r)
  <2> SUFFICES ASSUME NEW s \in PxSides, NEW d \in Range(q.list[s]["pc"]) PROVE AttendedCx(r.cx[d])
    BY <1>3 DEF AllAttended
  <2>1. "pc" \in CxLists
    BY DEF CxLists
  <2>2. d \in Cxs
    BY <1>8, <2>1
  <2>3. d # c => AttendedCx(r.cx[d])
    BY <1>1, <1>3, <2>2 DEF AllAttended
  <2>4. d = c => AttendedCx(r.cx[d])
    BY <1>2, <2>1
  <2> QED
    BY <2>3, <2>4
<1>10. ShelvedRight(r)
  <2>1. ASSUME NEW s \in PxSides, NEW m \in CxLists, NEW d \in Range(r.list[s][m])
        PROVE  r.cx[d].perm = (m = "pc")
    BY <1>1, <1>3, <1>4, <1>8 DEF ShelvedRight
  <2>2. ASSUME NEW d \in OnShelf(r, Trash) PROVE ~r.cx[d].mon
    BY <1>1, <1>2, <1>3, <1>5, <1>7, TrashIs DEF ShelvedRight
  <2> QED
    BY <2>1, <2>2 DEF ShelvedRight
<1>11. \A d \in Cxs : CxSound(r.cx[d])
  BY <1>1, <1>3, <1>4 DEF Good
<1> QED
  BY <1>3, <1>6, <1>9, <1>10, <1>11 DEF PxSound

\* The flags of the proxy do not matter.
LEMMA FlagsChanged ==
    ASSUME NEW q, PxSound(q), NEW r \in PxType,
           r.list = q.list, r.trash = q.trash, r.cx = q.cx
    PROVE  PxSound(r)
<1>1. \A k : Shelf(r, k) = Shelf(q, k) /\ OnShelf(r, k) = OnShelf(q, k)
  BY DEF Shelf, OnShelf
<1> QED
  BY <1>1 DEF PxSound, KeptOnce, AllAttended, ShelvedRight

LEMMA AppendOnce ==
    ASSUME NEW S, NEW s \in Seq(S), NEW e \in S, e \notin Range(s), IsInjective(s)
    PROVE  IsInjective(Append(s, e)) /\ Range(Append(s, e)) = Range(s) \cup {e}
<1> DEFINE t == Append(s, e)
<1>1. /\ t \in Seq(S) /\ Len(t) = Len(s) + 1 /\ t[Len(s) + 1] = e /\ Len(s) \in Nat
      /\ \A i \in 1 .. Len(s) : t[i] = s[i]
  OBVIOUS
<1>2. DOMAIN s = 1 .. Len(s) /\ DOMAIN t = 1 .. Len(s) + 1
  BY <1>1
<1> HIDE DEF t
<1>3. \A i \in 1 .. Len(s) + 1 : i \in 1 .. Len(s) \/ i = Len(s) + 1
  BY <1>1
<1>4. \A i \in 1 .. Len(s) : s[i] # e
  BY <1>2 DEF Range
<1>5. IsInjective(t)
  BY <1>1, <1>2, <1>3, <1>4 DEF IsInjective
<1>6. Range(t) = Range(s) \cup {e}
  <2>1. Len(s) + 1 \in DOMAIN t
    BY <1>1, <1>2
  <2>2. 1 .. Len(s) \subseteq DOMAIN t
    BY <1>1, <1>2
  <2> QED
    BY <1>1, <1>2, <1>3, <2>1, <2>2 DEF Range
<1> QED
  BY <1>5, <1>6 DEF t

\* r is q but for a list, which is s; but for a context, which is y.
Relisted(q, r, side, l, s) ==
    /\ r.list[side][l] = s
    /\ \A t \in PxSides, m \in CxLists : t # side \/ m # l => r.list[t][m] = q.list[t][m]
Recast(q, r, c, y) == r.cx[c] = y /\ \A d \in Cxs : d # c => r.cx[d] = q.cx[d]

\* The shelves when one list is another.
LEMMA ShelvesRelisted ==
    ASSUME NEW q \in PxType, NEW r, NEW side \in PxSides, NEW l \in CxLists, NEW s,
           Relisted(q, r, side, l, s), r.trash = q.trash
    PROVE  /\ Shelf(r, <<side, l>>) = s
           /\ \A j \in Shelves : j # <<side, l>> => Shelf(r, j) = Shelf(q, j)
<1>1. Shelf(r, <<side, l>>) = s
  BY ShelfIs DEF Relisted
<1>2. ASSUME NEW j \in Shelves, j # <<side, l>> PROVE Shelf(r, j) = Shelf(q, j)
  <2>1. CASE j = Trash
    BY <2>1, TrashIs
  <2>2. CASE \E t \in PxSides, m \in CxLists : j = <<t, m>>
    <3>1. PICK t \in PxSides, m \in CxLists : j = <<t, m>>
      BY <2>2
    <3>2. Shelf(r, j) = r.list[t][m] /\ Shelf(q, j) = q.list[t][m]
      BY <3>1, ShelfIs
    <3> QED
      BY <1>2, <3>1, <3>2 DEF Relisted
  <2> QED
    BY <2>1, <2>2, ShelfCases
<1> QED
  BY <1>1, <1>2

\* A context of which nothing was kept, put in a list.
LEMMA OneAdded ==
    ASSUME NEW q, PxSound(q), NEW side \in PxSides, NEW l \in CxLists,
           NEW c \in Cxs, q.cx[c].st # "live",
           NEW y, Good(y), y.perm = (l = "pc"), AttendedCx(y),
           NEW r \in PxType, r.trash = q.trash,
           Relisted(q, r, side, l, Append(q.list[side][l], c)), Recast(q, r, c, y)
    PROVE  PxSound(r)
<1>1. q \in PxType /\ KeptOnce(q) /\ ShelvedRight(q) /\ AllAttended(q) /\ \A d \in Cxs : CxSound(q.cx[d])
  BY DEF PxSound
<1> DEFINE k == <<side, l>>
<1>2. k \in Shelves /\ k # Trash /\ Trash \in Shelves /\ Shelf(q, k) = q.list[side][l]
  BY ShelfIs, TrashIs
<1>3. \A j \in Shelves : Shelf(q, j) \in Seq(Cxs) /\ OnShelf(q, j) \subseteq Cxs /\ IsInjective(Shelf(q, j))
  BY <1>1, ShelfTyped DEF KeptOnce
<1>4. \A j \in Shelves : c \notin OnShelf(q, j)
  BY <1>1 DEF KeptOnce
<1>5. r.cx[c] = y /\ (\A d \in Cxs : d # c => r.cx[d] = q.cx[d]) /\ y.st = "live"
  BY DEF Recast, Good
<1>7. Shelf(r, k) = Append(Shelf(q, k), c) /\ \A j \in Shelves : j # k => Shelf(r, j) = Shelf(q, j)
  <2> DEFINE a == Append(q.list[side][l], c)
  <2>1. Relisted(q, r, side, l, a)
    OBVIOUS
  <2>2. a = Append(Shelf(q, k), c)
    BY <1>2
  <2> HIDE DEF a
  <2> QED
    BY <1>1, <2>1, <2>2, ShelvesRelisted
<1>8. IsInjective(Shelf(r, k)) /\ OnShelf(r, k) = OnShelf(q, k) \cup {c}
  <2> DEFINE s == Shelf(q, k)
  <2>1. s \in Seq(Cxs) /\ c \notin Range(s) /\ IsInjective(s)
    BY <1>2, <1>3, <1>4 DEF OnShelf
  <2> HIDE DEF s
  <2>2. IsInjective(Append(s, c)) /\ Range(Append(s, c)) = Range(s) \cup {c}
    BY <2>1, AppendOnce
  <2> QED
    BY <1>7, <2>2 DEF OnShelf, s
<1>9. \A j \in Shelves : j # k => OnShelf(r, j) = OnShelf(q, j) /\ IsInjective(Shelf(r, j))
  BY <1>3, <1>7 DEF OnShelf
<1> HIDE DEF k
<1>10. KeptOnce(r)
  <2>1. \A j \in Shelves : IsInjective(Shelf(r, j))
    BY <1>8, <1>9
  <2>2. \A i, j \in Shelves : i # j => OnShelf(r, i) \cap OnShelf(r, j) = {}
    BY <1>1, <1>4, <1>8, <1>9 DEF KeptOnce
  <2>3. {d \in Cxs : r.cx[d].st = "live"} = {d \in Cxs : q.cx[d].st = "live"} \cup {c}
    BY <1>5
  <2>4. UNION {OnShelf(r, j) : j \in Shelves} = {c} \cup UNION {OnShelf(q, j) : j \in Shelves}
    BY <1>2, <1>8, <1>9
  <2>5. {d \in Cxs : q.cx[d].st = "live"} = UNION {OnShelf(q, j) : j \in Shelves}
    BY <1>1 DEF KeptOnce
  <2> QED
    BY <2>1, <2>2, <2>3, <2>4, <2>5 DEF KeptOnce
<1>11. \A s \in PxSides, m \in CxLists :
          /\ Range(q.list[s][m]) \subseteq Cxs /\ c \notin Range(q.list[s][m])
          /\ s = side /\ m = l => Range(r.list[s][m]) = Range(q.list[s][m]) \cup {c}
          /\ ~(s = side /\ m = l) => Range(r.list[s][m]) = Range(q.list[s][m])
  <2> SUFFICES ASSUME NEW s \in PxSides, NEW m \in CxLists
      PROVE  /\ Range(q.list[s][m]) \subseteq Cxs /\ c \notin Range(q.list[s][m])
             /\ s = side /\ m = l => Range(r.list[s][m]) = Range(q.list[s][m]) \cup {c}
             /\ ~(s = side /\ m = l) => Range(r.list[s][m]) = Range(q.list[s][m])
    OBVIOUS
  <2>1. <<s, m>> \in Shelves /\ OnShelf(q, <<s, m>>) = Range(q.list[s][m])
        /\ OnShelf(r, <<s, m>>) = Range(r.list[s][m])
    BY ShelfIs DEF OnShelf
  <2>2. <<s, m>> = k <=> s = side /\ m = l
    BY DEF k
  <2> QED
    BY <1>3, <1>4, <1>8, <1>9, <2>1, <2>2
<1>12. AllAttended(r)
  <2> SUFFICES ASSUME NEW s \in PxSides, NEW d \in Range(r.list[s]["pc"]) PROVE AttendedCx(r.cx[d])
    BY DEF AllAttended
  <2>1. "pc" \in CxLists
    BY DEF CxLists
  <2>2. d = c \/ d \in Range(q.list[s]["pc"])
    BY <1>11, <2>1
  <2> QED
    BY <1>1, <1>5, <1>11, <2>1, <2>2 DEF AllAttended
<1>13. ShelvedRight(r)
  <2>1. ASSUME NEW s \in PxSides, NEW m \in CxLists, NEW d \in Range(r.list[s][m])
        PROVE  r.cx[d].perm = (m = "pc")
    <3>1. CASE d \in Range(q.list[s][m])
      BY <1>1, <1>5, <1>11, <3>1 DEF ShelvedRight
    <3>2. CASE d \notin Range(q.list[s][m])
      BY <1>5, <1>11, <3>2
    <3> QED
      BY <3>1, <3>2
  <2>2. ASSUME NEW d \in OnShelf(r, Trash) PROVE ~r.cx[d].mon
    BY <1>1, <1>2, <1>3, <1>4, <1>5, <1>9 DEF ShelvedRight
  <2> QED
    BY <2>1, <2>2 DEF ShelvedRight
<1>14. \A d \in Cxs : CxSound(r.cx[d])
  BY <1>1, <1>5 DEF Good
<1> QED
  BY <1>10, <1>12, <1>13, <1>14 DEF PxSound

\* What AddCx makes of a context, and of the proxy.
AddedCx(x, l) == [x EXCEPT !.mon = (x.fd = LiveFd), !.perm = (l = "pc")]

LEMMA AddCxIs ==
    ASSUME NEW p \in PxType, NEW side \in PxSides, NEW l \in CxLists, NEW c \in Cxs,
           NEW r, r = AddCx(p, side, l, c)
    PROVE  /\ r \in PxType /\ r.trash = p.trash /\ r.stop = p.stop
           /\ Recast(p, r, c, AddedCx(p.cx[c], l))
           /\ Relisted(p, r, side, l, Append(p.list[side][l], c))
<1> DEFINE x == p.cx[c]
           y == AddedCx(x, l)
           m == (x.fd = LiveFd)
           z == [x EXCEPT !.mon = m]
           w == [p EXCEPT !.cx[c].mon = m]
<1>1. x \in CxType /\ m \in BOOLEAN
  BY DEF PxType
<1>2. y \in CxType /\ [z EXCEPT !.perm = (l = "pc")] = y
  BY <1>1 DEF CxType, AddedCx
<1>3. WatchCx(p, c) = w
  BY DEF WatchCx
<1>4. /\ w \in PxType /\ Recast(p, w, c, z) /\ w.list = p.list /\ w.trash = p.trash
      /\ w.stop = p.stop /\ w.cx[c] = z
  <2> HIDE DEF m
  <2> QED
    BY <1>1 DEF PxType, CxType, Recast
<1>5. r = [w EXCEPT !.list[side][l] = Append(@, c), !.cx[c].perm = (l = "pc")]
  BY <1>3 DEF AddCx
<1> HIDE DEF w
<1>6. /\ r.trash = p.trash /\ r.stop = p.stop
      /\ r.cx = [w.cx EXCEPT ![c] = [@ EXCEPT !.perm = (l = "pc")]]
  BY <1>4, <1>5 DEF PxType
<1>7. r.list = [w.list EXCEPT ![side] = [w.list[side] EXCEPT ![l] = Append(w.list[side][l], c)]]
  BY <1>4, <1>5 DEF PxType
<1>8. w.cx \in [Cxs -> CxType] /\ w.cx[c] = z /\ w.list \in [PxSides -> [CxLists -> Seq(Cxs)]]
  BY <1>4 DEF PxType
<1> HIDE DEF z, y
<1>9. r.cx = [w.cx EXCEPT ![c] = y]
  BY <1>2, <1>6, <1>8
<1>10. r.cx \in [Cxs -> CxType]
  <2>1. y \in CxType
    BY <1>2
  <2> QED
    BY <1>8, <1>9, <2>1
<1>11. Recast(p, r, c, y)
  BY <1>4, <1>8, <1>9 DEF Recast
<1> DEFINE a == Append(p.list[side][l], c)
           f == [w.list[side] EXCEPT ![l] = a]
<1>12. r.list = [w.list EXCEPT ![side] = f] /\ a \in Seq(Cxs)
  BY <1>4, <1>7, <1>8
<1> HIDE DEF a
<1>13. /\ f \in [CxLists -> Seq(Cxs)]
       /\ f[l] = a /\ \A t \in CxLists : t # l => f[t] = p.list[side][t]
  BY <1>4, <1>8, <1>12
<1> HIDE DEF f
<1>14. /\ r.list \in [PxSides -> [CxLists -> Seq(Cxs)]]
       /\ r.list[side] = f /\ \A t \in PxSides : t # side => r.list[t] = p.list[t]
  BY <1>4, <1>8, <1>12, <1>13
<1>15. Relisted(p, r, side, l, a)
  BY <1>13, <1>14 DEF Relisted
<1>16. r \in PxType
  <2>1. r = [w EXCEPT !.list = r.list, !.cx = r.cx]
    BY <1>4, <1>5 DEF PxType
  <2> QED
    BY <1>4, <1>10, <1>14, <2>1 DEF PxType
<1> QED
  BY <1>6, <1>11, <1>15, <1>16 DEF a, y

\* A context with a descriptor of its own, as AddCx puts it in a list.
LEMMA AddFresh ==
    ASSUME NEW q, PxSound(q), NEW side \in PxSides, NEW l \in CxLists,
           NEW c \in Cxs, q.cx[c].st # "live",
           NEW x \in CxType, x.fd = LiveFd, x.closing = NoSock, x.st = "live", ~x.leaked,
           NEW p \in PxType, Recast(q, p, c, x), p.list = q.list, p.trash = q.trash,
           NEW r, r = AddCx(p, side, l, c)
    PROVE  PxSound(r) /\ r.stop = p.stop
<1> DEFINE y == AddedCx(x, l)
<1>1. q \in PxType
  BY DEF PxSound
<1>2. p.cx[c] = x
  BY DEF Recast
<1>3. Good(y) /\ y.perm = (l = "pc") /\ AttendedCx(y)
  BY DEF AddedCx, Good, CxSound, CxType, AttendedCx, NoSock, LiveFd
<1>4. y = AddedCx(p.cx[c], l)
  BY <1>2
<1> HIDE DEF y
<1>5. /\ r \in PxType /\ r.trash = p.trash /\ r.stop = p.stop /\ Recast(p, r, c, y)
      /\ Relisted(p, r, side, l, Append(p.list[side][l], c))
  <2>1. /\ r \in PxType /\ r.trash = p.trash /\ r.stop = p.stop
        /\ Recast(p, r, c, AddedCx(p.cx[c], l))
        /\ Relisted(p, r, side, l, Append(p.list[side][l], c))
    BY AddCxIs
  <2> QED
    BY <1>4, <2>1
<1>6. Recast(q, r, c, y) /\ Relisted(q, r, side, l, Append(q.list[side][l], c))
  BY <1>5 DEF Recast, Relisted
<1>7. PxSound(r)
  BY <1>3, <1>5, <1>6, OneAdded
<1> QED
  BY <1>5, <1>7

-----------------------------------------------------------------------------
(* The loops keep a proxy sound.                                           *)

Sound == {q \in PxType : PxSound(q)}
SoundAs(q) == {r \in Sound : r.list = q.list}

LEMMA FreshCxIs ==
    ASSUME NEW q \in PxType, NEW c \in FreshCx(q)
    PROVE  c \in Cxs /\ q.cx[c].st = "none"
BY DEF FreshCx

LEMMA NewCxIs ==
    ASSUME NEW f \in CxFds, NEW w \in BOOLEAN
    PROVE  /\ NewCx(f, w) \in CxType /\ NewCx(f, w).fd = f /\ NewCx(f, w).closing = NoSock
           /\ NewCx(f, w).st = "live" /\ ~NewCx(f, w).leaked /\ ~NewCx(f, w).mon
BY DEF NewCx, CxType, CxFds, NoSock, FailedFd, LiveFd

LEMMA AddNew ==
    ASSUME NEW q \in Sound, NEW side \in PxSides, NEW l \in CxLists, NEW c \in FreshCx(q),
           NEW r, r = AddNewCx(q, side, l, c)
    PROVE  r \in Sound /\ r.stop = q.stop
<1> DEFINE w == (l = "delayed")
           x == NewCx(LiveFd, w)
           p == [q EXCEPT !.cx[c] = x]
<1>0. w \in BOOLEAN /\ r = AddCx(p, side, l, c)
  BY DEF AddNewCx
<1> HIDE DEF w
<1>1. q \in PxType /\ PxSound(q)
  BY DEF Sound
<1>2. c \in Cxs /\ q.cx[c].st # "live"
  BY <1>1, FreshCxIs
<1>3. x \in CxType /\ x.fd = LiveFd /\ x.closing = NoSock /\ x.st = "live" /\ ~x.leaked
  BY <1>0, NewCxIs DEF CxFds
<1>4. p \in PxType /\ Recast(q, p, c, x) /\ p.list = q.list /\ p.trash = q.trash /\ p.stop = q.stop
  <2> HIDE DEF x
  <2> QED
    BY <1>1, <1>2, <1>3 DEF PxType, Recast
<1>4a. r = AddCx(p, side, l, c)
  BY <1>0
<1> HIDE DEF x, p
<1>5. PxSound(r) /\ r.stop = q.stop
  BY <1>1, <1>2, <1>3, <1>4, <1>4a, AddFresh
<1> QED
  BY <1>5 DEF Sound, PxSound

LEMMA AcceptCxSound ==
    ASSUME NEW q \in Sound, NEW side \in PxSides, NEW r \in AcceptCx(q, side)
    PROVE  r \in Sound
<1>1. CASE r = q
  BY <1>1
<1>2. CASE r # q
  <2>1. PICK c \in FreshCx(q), l \in {"sockets", "delayed"} : r = AddNewCx(q, side, l, c)
    BY <1>2 DEF AcceptCx
  <2>2. l \in CxLists
    BY DEF CxLists
  <2> QED
    BY <2>1, <2>2, AddNew
<1> QED
  BY <1>1, <1>2

\* A sound proxy whose flags are changed.
LEMMA SoundFlags ==
    ASSUME NEW q \in Sound, NEW s \in BOOLEAN, NEW d \in BOOLEAN
    PROVE  /\ [q EXCEPT !.stop = s] \in SoundAs(q)
           /\ [q EXCEPT !.dead = d] \in SoundAs(q)
           /\ [q EXCEPT !.stop = s, !.dead = d] \in SoundAs(q)
<1>0. q \in PxType /\ PxSound(q)
  BY DEF Sound
<1>1. ASSUME NEW r, r \in {[q EXCEPT !.stop = s], [q EXCEPT !.dead = d],
                           [q EXCEPT !.stop = s, !.dead = d]}
      PROVE  r \in SoundAs(q)
  <2>1. r \in PxType /\ r.list = q.list /\ r.trash = q.trash /\ r.cx = q.cx
    BY <1>0, <1>1 DEF PxType
  <2> QED
    BY <1>0, <2>1, FlagsChanged DEF Sound, SoundAs
<1> QED
  BY <1>1

LEMMA BindVisitSound ==
    ASSUME NEW q \in Sound, NEW side \in PxSides, NEW c \in Cxs, NEW r \in BindVisit(q, side, c)
    PROVE  r \in Sound
<1>1. \/ r = q \/ r \in AcceptCx(q, side)
      \/ \E t \in AcceptCx(q, side) : r = [t EXCEPT !.stop = TRUE, !.dead = TRUE]
  BY DEF BindVisit
<1>2. CASE \E t \in AcceptCx(q, side) : r = [t EXCEPT !.stop = TRUE, !.dead = TRUE]
  <2>1. PICK t \in AcceptCx(q, side) : r = [t EXCEPT !.stop = TRUE, !.dead = TRUE]
    BY <1>2
  <2>2. t \in Sound
    BY AcceptCxSound
  <2> QED
    BY <2>1, <2>2, SoundFlags DEF SoundAs
<1> QED
  BY <1>1, <1>2, AcceptCxSound

\* A visit of the loops over sockets and permanent contexts.
LEMMA VisitSound ==
    ASSUME NEW q \in Sound, NEW loop \in {"read", "write", "pc"}, NEW side \in PxSides,
           NEW c \in Range(q.list[side][LoopLists[loop]]), ~q.stop,
           NEW r \in Visit(q, loop, side, c)
    PROVE  r \in SoundAs(q)
<1> DEFINE l == LoopLists[loop]
<1>0. q \in PxType /\ PxSound(q) /\ l \in CxLists
  BY DEF Sound, LoopLists, CxLists
<1>1. c \in Cxs
  BY <1>0, ListedOnce
<1>2. r \in Of(q, c) /\ (l = "pc" => AttendedCx(r.cx[c]))
  <2>1. CASE loop = "read"
    <3>1. r \in ReadOnce(q, side, "sockets", c) /\ l = "sockets" /\ "sockets" \in CxLists
      BY <2>1 DEF Visit, LoopLists, CxLists
    <3>2. r \in Of(q, c)
      BY <1>0, <1>1, <3>1, ReadOnceOf DEF Left, Calm
    <3> QED
      BY <3>1, <3>2
  <2>2. CASE loop = "write"
    <3>1. r \in WriteOnce(q, side, "sockets", c) /\ l = "sockets" /\ "sockets" \in CxLists
      BY <2>2 DEF Visit, LoopLists, CxLists
    <3>2. r \in Of(q, c)
      BY <1>0, <1>1, <3>1, WriteOnceOf DEF Left, Calm
    <3> QED
      BY <3>1, <3>2
  <2>3. CASE loop = "pc"
    <3>1. r \in PcVisit(q, side, c) /\ l = "pc"
      BY <2>3 DEF Visit, LoopLists
    <3>2. AttendedCx(q.cx[c])
      BY <1>0, <3>1 DEF PxSound, AllAttended
    <3> QED
      BY <1>0, <1>1, <3>1, <3>2, PcVisitOf
  <2> QED
    BY <2>1, <2>2, <2>3
<1> HIDE DEF l
<1>3. PxSound(r) /\ r.list = q.list
  BY <1>0, <1>2, OneChanged DEF l
<1> QED
  BY <1>3 DEF Sound, SoundAs, PxSound

\* The loops over sockets and permanent contexts.
LEMMA LoopSound ==
    ASSUME NEW q \in Sound, NEW loop \in {"read", "write", "pc"}, NEW side \in PxSides,
           NEW r \in Loop(q, loop, side)
    PROVE  r \in Sound
<1> DEFINE l == LoopLists[loop]
           cs == q.list[side][l]
<1>0. q \in PxType /\ l \in CxLists /\ loop \in LoopNames
  BY DEF Sound, LoopLists, CxLists, LoopNames
<1>1. cs \in Seq(Cxs) /\ q \in SoundAs(q)
  BY <1>0 DEF PxType, SoundAs
<1>2. VisitsIn(SoundAs(q), loop, side, cs)
  <2> SUFFICES ASSUME NEW t \in SoundAs(q), NEW i \in 1 .. Len(cs), ~t.stop
               PROVE  Visit(t, loop, side, cs[i]) \in SUBSET SoundAs(q)
    BY DEF VisitsIn
  <2>1. t \in Sound /\ t.list = q.list
    BY DEF SoundAs
  <2>2. cs[i] \in Range(cs)
    BY <1>1 DEF Range
  <2>3. cs[i] \in Range(t.list[side][LoopLists[loop]])
    BY <2>1, <2>2
  <2> HIDE DEF cs
  <2>4. \A u \in Visit(t, loop, side, cs[i]) : u \in SoundAs(t)
    BY <2>1, <2>3, VisitSound
  <2> QED
    BY <2>1, <2>4 DEF SoundAs
<1>3. EachCx(q, loop, side) \subseteq SoundAs(q)
  <2> DEFINE T == SoundAs(q)
  <2>1. q \in T /\ VisitsIn(T, loop, side, cs) /\ cs \in Seq(Cxs) /\ cs = q.list[side][LoopLists[loop]]
    BY <1>1, <1>2
  <2> HIDE DEF T, cs
  <2>2. EachCx(q, loop, side) \subseteq T
    BY <1>0, <2>1, EachCxStays
  <2> QED
    BY <2>2 DEF T
<1>4. PICK t \in EachCx(q, loop, side) : r = [t EXCEPT !.stop = FALSE]
  BY DEF Loop
<1> QED
  BY <1>3, <1>4, SoundFlags DEF SoundAs

\* The loop over bound contexts.
LEMMA BindLoopSound ==
    ASSUME NEW q \in Sound, NEW side \in PxSides
    PROVE  EachCx(q, "bind", side) \subseteq Sound
<1> DEFINE loop == "bind"
           cs == q.list[side][LoopLists[loop]]
           T == Sound
<1>0. q \in PxType /\ loop \in LoopNames /\ LoopLists[loop] \in CxLists
  BY DEF Sound, LoopLists, CxLists, LoopNames
<1>1. cs \in Seq(Cxs)
  BY <1>0 DEF PxType
<1>2. VisitsIn(T, loop, side, cs)
  <2> SUFFICES ASSUME NEW t \in Sound, NEW i \in 1 .. Len(cs)
               PROVE  Visit(t, loop, side, cs[i]) \in SUBSET Sound
    BY DEF VisitsIn
  <2>1. cs[i] \in Cxs
    BY <1>1
  <2>2. Visit(t, loop, side, cs[i]) = BindVisit(t, side, cs[i])
    BY DEF Visit
  <2> HIDE DEF cs, loop
  <2> QED
    BY <2>1, <2>2, BindVisitSound
<1>3. cs = q.list[side][LoopLists[loop]] /\ q \in T
  OBVIOUS
<1> HIDE DEF cs, loop, T
<1>4. EachCx(q, loop, side) \subseteq T
  BY <1>0, <1>1, <1>2, <1>3, EachCxStays
<1> QED
  BY <1>4 DEF loop, T

-----------------------------------------------------------------------------
(* The delayed contexts.                                                   *)

\* One step of the recursive function of Waiting.
Kept(q, c, s) == IF q.cx[c].wait THEN Append(s, c) ELSE s

LEMMA WaitingUnrolled ==
    ASSUME NEW q, NEW cs \in Seq(Cxs)
    PROVE  \E g \in [0 .. Len(cs) -> Seq(Cxs)] :
              /\ g[0] = <<>> /\ Waiting(q, cs) = g[Len(cs)]
              /\ \A i \in 1 .. Len(cs) : g[i] = Kept(q, cs[i], g[i - 1])
<1> DEFINE n == Len(cs)
           T == Seq(Cxs)
           G(i, s) == Kept(q, cs[i], s)
           F == [x \in (1 .. n) \X T |-> G(x[1], x[2])]
           b == <<>>
<1>0. n \in Nat /\ b \in T
  OBVIOUS
<1>1. ASSUME NEW i \in 1 .. n, NEW s \in T PROVE G(i, s) \in T
  <2>1. cs[i] \in Cxs
    OBVIOUS
  <2> QED
    BY <2>1 DEF Kept
<1>2. F \in StepFcns(T, n)
  BY <1>1 DEF StepFcns
<1>3. \A i \in 1 .. n, s \in T : F[<<i, s>>] = G(i, s)
  OBVIOUS
<1> HIDE DEF F, n, G, T, b
<1>4. PICK g \in [0 .. n -> T] : g[0] = b /\ \A i \in 1 .. n : g[i] = F[<<i, g[i - 1]>>]
  <2>1. Traces(T, n, b, F) # {}
    BY <1>0, <1>2, Run
  <2> QED
    BY <2>1 DEF Traces
<1>5. \A i \in 1 .. n : g[i] = G(i, g[i - 1])
  <2>1. \A i \in 1 .. n : g[i - 1] \in T
    BY <1>0, <1>4
  <2> QED
    BY <1>3, <1>4, <2>1
<1> DEFINE Is(h) == h = [i \in 0 .. n |-> IF i = 0 THEN b ELSE G(i, h[i - 1])]
<1>6. Is(g)
  <2>1. \A i \in 0 .. n : i = 0 \/ i \in 1 .. n
    BY <1>0
  <2>2. \A i \in 0 .. n : g[i] = IF i = 0 THEN b ELSE G(i, g[i - 1])
    BY <1>4, <1>5, <2>1
  <2> QED
    BY <1>4, <2>2
<1>7. Waiting(q, cs) = (CHOOSE h : Is(h))[n]
  BY DEF Waiting, n, G, Kept, b
<1> DEFINE h == CHOOSE f : Is(f)
<1>8. Is(h)
  BY <1>6, Zenon
<1> HIDE DEF h
<1>9. h = [i \in 0 .. n |-> IF i = 0 THEN b ELSE G(i, h[i - 1])]
  BY <1>8
<1>10. h[0] = b /\ \A i \in 1 .. n : h[i] = G(i, h[i - 1])
  <2>1. 0 \in 0 .. n /\ \A i \in 1 .. n : i \in 0 .. n /\ i # 0
    BY <1>0
  <2>2. \A i \in 0 .. n : h[i] = IF i = 0 THEN b ELSE G(i, h[i - 1])
    BY <1>9, Zenon
  <2> QED
    BY <2>1, <2>2
<1>11. h \in [0 .. n -> T]
  <2> DEFINE H == {i \in Nat : i \in 0 .. n => h[i] \in T}
  <2>1. 0 \in H
    BY <1>0, <1>10
  <2>2. ASSUME NEW i \in 1 .. n, i - 1 \in H PROVE i \in H
    <3>1. i - 1 \in 0 .. n /\ h[i - 1] \in T
      BY <1>0, <2>2
    <3>2. h[i] \in T
      BY <1>1, <1>10, <3>1
    <3> QED
      BY <1>0, <3>2
  <2>3. \A i \in 0 .. n : i \in H
    <3>1. H \in SUBSET Nat
      OBVIOUS
    <3> HIDE DEF H
    <3> QED
      BY <1>0, <2>1, <2>2, <3>1, UpTo
  <2>4. \A i \in 0 .. n : h[i] \in T
    BY <2>3
  <2>5. DOMAIN h = 0 .. n /\ h = [i \in DOMAIN h |-> h[i]]
    BY <1>9, Zenon
  <2> QED
    BY <2>4, <2>5
<1>12. Waiting(q, cs) = h[n]
  BY <1>7 DEF h
<1> QED
  BY <1>10, <1>11, <1>12 DEF n, T, b, G

\* Those that wait, each once.
LEMMA WaitingIs ==
    ASSUME NEW q, NEW cs \in Seq(Cxs), IsInjective(cs)
    PROVE  /\ Waiting(q, cs) \in Seq(Cxs) /\ IsInjective(Waiting(q, cs))
           /\ Range(Waiting(q, cs)) = {c \in Range(cs) : q.cx[c].wait}
<1> DEFINE n == Len(cs)
           of(i) == {cs[j] : j \in {k \in 1 .. i : q.cx[cs[k]].wait}}
<1>0. PICK g \in [0 .. Len(cs) -> Seq(Cxs)] :
              /\ g[0] = <<>> /\ Waiting(q, cs) = g[Len(cs)]
              /\ \A i \in 1 .. Len(cs) : g[i] = Kept(q, cs[i], g[i - 1])
  BY WaitingUnrolled
<1> DEFINE H == {i \in Nat : i \in 0 .. n => IsInjective(g[i]) /\ Range(g[i]) = of(i)}
<1>1. n \in Nat /\ DOMAIN cs = 1 .. n /\ 0 \in 0 .. n
  OBVIOUS
<1>2. 0 \in H
  <2>1. of(0) = {}
    OBVIOUS
  <2>2. IsInjective(<<>>) /\ Range(<<>>) = {}
    BY DEF IsInjective, Range
  <2> QED
    BY <1>0, <2>1, <2>2
<1>3. ASSUME NEW i \in 1 .. n, i - 1 \in H PROVE i \in H
  <2> DEFINE s == g[i - 1]
             c == cs[i]
  <2>1. s \in Seq(Cxs) /\ IsInjective(s) /\ Range(s) = of(i - 1) /\ c \in Cxs
    BY <1>0, <1>1, <1>3
  <2>2. \A j \in 1 .. i - 1 : cs[j] # c
    BY <1>1 DEF IsInjective
  <2>3. g[i] = Kept(q, c, s)
    BY <1>0
  <2>4. \A j \in 1 .. i : j \in 1 .. i - 1 \/ j = i
    BY <1>1
  <2>5. 1 .. i - 1 \subseteq 1 .. i /\ i \in 1 .. i
    BY <1>1
  <2>6. of(i) = IF q.cx[c].wait THEN of(i - 1) \cup {c} ELSE of(i - 1)
    BY <2>4, <2>5
  <2>7. c \notin of(i - 1)
    BY <2>2
  <2> HIDE DEF of, s, c
  <2>8. IsInjective(Append(s, c)) /\ Range(Append(s, c)) = Range(s) \cup {c}
    BY <2>1, <2>7, AppendOnce
  <2>9. IsInjective(g[i]) /\ Range(g[i]) = of(i)
    <3>1. CASE q.cx[c].wait
      BY <2>1, <2>3, <2>6, <2>8, <3>1 DEF Kept
    <3>2. CASE ~q.cx[c].wait
      BY <2>1, <2>3, <2>6, <3>2 DEF Kept
    <3> QED
      BY <3>1, <3>2
  <2> QED
    BY <1>1, <2>9
<1>4. \A i \in 0 .. n : i \in H
  <2>1. H \in SUBSET Nat
    OBVIOUS
  <2> HIDE DEF H, n
  <2> QED
    BY <1>1, <1>2, <1>3, <2>1, UpTo
<1>5. n \in H /\ n \in 0 .. n
  BY <1>1, <1>4
<1>6. IsInjective(g[n]) /\ Range(g[n]) = of(n)
  BY <1>5
<1>7. of(n) = {c \in Range(cs) : q.cx[c].wait}
  BY <1>1 DEF Range
<1> HIDE DEF of
<1> QED
  BY <1>0, <1>5, <1>6, <1>7

\* A visit of a delayed context that is not permanent: it waits on, or it is
\* also among the sockets.
LEMMA DelayedVisitIs ==
    ASSUME NEW q \in PxType, NEW side \in PxSides, NEW c \in Cxs, NEW r \in DelayedVisit(q, side, c)
    PROVE  /\ r \in PxType /\ r.trash = q.trash /\ r.stop = q.stop
           /\ \A d \in Cxs : d # c => r.cx[d] = q.cx[d]
           /\ ~q.cx[c].perm => Tame(q.cx[c], r.cx[c])
           /\ r.cx[c].wait => r.list = q.list
           /\ ~r.cx[c].wait =>
                 Relisted(q, r, side, "sockets", Append(q.list[side]["sockets"], c))
<1>0. "sockets" \in CxLists
  BY DEF CxLists
<1>1. PICK p \in PeerMayBeReady(q, c) : r = IF p.cx[c].wait THEN p ELSE AddCx(p, side, "sockets", c)
  BY DEF DelayedVisit
<1>2. /\ p \in PxType /\ p.list = q.list /\ p.trash = q.trash /\ p.stop = q.stop
      /\ \A d \in Cxs : d # c => p.cx[d] = q.cx[d]
      /\ Tame(q.cx[c], p.cx[c])
  BY PeerMayBeReadyOf DEF Calm, Of
<1>3. CASE p.cx[c].wait
  BY <1>1, <1>2, <1>3
<1>4. CASE ~p.cx[c].wait
  <2> DEFINE y == AddedCx(p.cx[c], "sockets")
  <2>1. r = AddCx(p, side, "sockets", c)
    BY <1>1, <1>4
  <2>2. /\ r \in PxType /\ r.trash = p.trash /\ r.stop = p.stop /\ Recast(p, r, c, y)
        /\ Relisted(p, r, side, "sockets", Append(p.list[side]["sockets"], c))
    BY <1>0, <1>2, <2>1, AddCxIs
  <2>3. p.cx[c] \in CxType /\ p.cx[c].perm = q.cx[c].perm
    BY <1>2 DEF Tame
  <2>4. ~q.cx[c].perm => Tame(p.cx[c], y)
    BY <2>3 DEF AddedCx, Tame, Good, CxSound, CxType
  <2>5. ~y.wait
    BY <1>4, <2>3 DEF AddedCx, CxType
  <2> HIDE DEF y
  <2>6. ~q.cx[c].perm => Tame(q.cx[c], r.cx[c])
    BY <1>2, <2>2, <2>4 DEF Tame, Recast
  <2>7. Relisted(q, r, side, "sockets", Append(q.list[side]["sockets"], c)) /\ ~r.cx[c].wait
    BY <1>2, <2>2, <2>5 DEF Relisted, Recast
  <2>8. \A d \in Cxs : d # c => r.cx[d] = q.cx[d]
    BY <1>2, <2>2 DEF Recast
  <2> QED
    BY <1>2, <2>2, <2>6, <2>7, <2>8
<1> QED
  BY <1>3, <1>4

\* The proxies that the loop over the delayed contexts ds of q may have come to
\* after i visits.
Accepted(r, ds, i) == {ds[j] : j \in {k \in 1 .. i : ~r.cx[ds[k]].wait}}

Midway(q, side, ds, i) ==
    {r \in PxType :
        /\ ~r.stop /\ r.trash = q.trash
        /\ \A t \in PxSides, m \in CxLists :
              t # side \/ m # "sockets" => r.list[t][m] = q.list[t][m]
        /\ IsInjective(r.list[side]["sockets"])
        /\ Range(r.list[side]["sockets"]) = Range(q.list[side]["sockets"]) \cup Accepted(r, ds, i)
        /\ \A c \in Cxs : Tame(q.cx[c], r.cx[c])
        /\ \A c \in Cxs : c \notin Range(ds) => r.cx[c] = q.cx[c]}

LEMMA MidwayStep ==
    ASSUME NEW q \in Sound, NEW side \in PxSides, NEW ds, ds = q.list[side]["delayed"],
           NEW i \in 1 .. Len(ds), NEW p \in Midway(q, side, ds, i - 1),
           NEW r \in DelayedVisit(p, side, ds[i])
    PROVE  r \in Midway(q, side, ds, i)
<1> DEFINE c == ds[i]
           old == q.list[side]["sockets"]
           was == p.list[side]["sockets"]
           now == r.list[side]["sockets"]
<1>0. "sockets" \in CxLists /\ "delayed" \in CxLists /\ q \in PxType /\ PxSound(q)
  BY DEF CxLists, Sound
<1>1. ds \in Seq(Cxs) /\ IsInjective(ds) /\ DOMAIN ds = 1 .. Len(ds) /\ Len(ds) \in Nat
  <2>1. ds \in Seq(Cxs)
    BY <1>0 DEF PxType
  <2>2. IsInjective(ds)
    <3>1. <<side, "delayed">> \in Shelves /\ Shelf(q, <<side, "delayed">>) = ds
      BY <1>0, ShelfIs
    <3> QED
      BY <1>0, <3>1 DEF PxSound, KeptOnce
  <2> QED
    BY <2>1, <2>2
<1>2. c \in Cxs /\ c \in Range(ds)
  BY <1>1 DEF Range
<1>3. ~q.cx[c].perm /\ c \notin Range(old)
  <2>1. c \in Range(q.list[side]["delayed"])
    BY <1>2
  <2> HIDE DEF c
  <2>2. /\ q.cx[c].perm = ("delayed" = "pc")
        /\ \A s \in PxSides, m \in CxLists : c \in Range(q.list[s][m]) => s = side /\ m = "delayed"
    BY <1>0, <2>1, ListedOnce
  <2> QED
    BY <1>0, <2>2
<1>4. /\ p \in PxType /\ ~p.stop /\ p.trash = q.trash
      /\ \A t \in PxSides, m \in CxLists :
              t # side \/ m # "sockets" => p.list[t][m] = q.list[t][m]
      /\ IsInjective(was) /\ Range(was) = Range(old) \cup Accepted(p, ds, i - 1)
      /\ \A d \in Cxs : Tame(q.cx[d], p.cx[d])
      /\ \A d \in Cxs : d \notin Range(ds) => p.cx[d] = q.cx[d]
  BY DEF Midway
<1>5. ~p.cx[c].perm
  BY <1>2, <1>3, <1>4 DEF Tame
<1>6. /\ r \in PxType /\ r.trash = p.trash /\ r.stop = p.stop
      /\ \A d \in Cxs : d # c => r.cx[d] = p.cx[d]
      /\ Tame(p.cx[c], r.cx[c])
      /\ r.cx[c].wait => r.list = p.list
      /\ ~r.cx[c].wait => Relisted(p, r, side, "sockets", Append(was, c))
  BY <1>2, <1>4, <1>5, DelayedVisitIs
<1>7. \A t \in PxSides, m \in CxLists : t # side \/ m # "sockets" => r.list[t][m] = q.list[t][m]
  BY <1>4, <1>6 DEF Relisted
<1>8. \A d \in Cxs : Tame(q.cx[d], r.cx[d])
  BY <1>2, <1>4, <1>6 DEF Tame
<1>9. \A d \in Cxs : d \notin Range(ds) => r.cx[d] = q.cx[d]
  BY <1>2, <1>4, <1>6
<1>10. \A j \in 1 .. i - 1 : ds[j] # c /\ ds[j] \in Cxs
  <2>1. SUFFICES ASSUME NEW j \in 1 .. i - 1 PROVE ds[j] # ds[i] /\ ds[j] \in Cxs
    OBVIOUS
  <2>2. i \in Nat /\ j \in 1 .. Len(ds) /\ i \in 1 .. Len(ds) /\ j # i
    BY <1>1
  <2>3. ds[j] \in Cxs
    BY <1>1, <2>2
  <2>4. ds[j] # ds[i]
    BY <1>1, <2>2 DEF IsInjective
  <2> QED
    BY <2>3, <2>4
<1>11. Accepted(r, ds, i) = IF r.cx[c].wait THEN Accepted(p, ds, i - 1) ELSE Accepted(p, ds, i - 1) \cup {c}
  <2>1. \A j \in 1 .. i - 1 : r.cx[ds[j]].wait = p.cx[ds[j]].wait
    BY <1>6, <1>10
  <2>2. \A j \in 1 .. i : j \in 1 .. i - 1 \/ j = i
    BY <1>1
  <2>3. 1 .. i - 1 \subseteq 1 .. i /\ i \in 1 .. i
    BY <1>1
  <2> QED
    BY <2>1, <2>2, <2>3 DEF Accepted
<1>12. c \notin Range(was)
  <2>1. c \notin Accepted(p, ds, i - 1)
    BY <1>10 DEF Accepted
  <2> QED
    BY <1>3, <1>4, <2>1
<1>13. was \in Seq(Cxs)
  BY <1>0, <1>4 DEF PxType
<1> HIDE DEF c, was, old
<1>14. IsInjective(now) /\ Range(now) = Range(old) \cup Accepted(r, ds, i)
  <2>1. CASE r.cx[c].wait
    BY <1>4, <1>6, <1>11, <2>1 DEF was
  <2>2. CASE ~r.cx[c].wait
    <3>1. now = Append(was, c)
      BY <1>6, <2>2 DEF Relisted
    <3>2. IsInjective(Append(was, c)) /\ Range(Append(was, c)) = Range(was) \cup {c}
      BY <1>2, <1>4, <1>12, <1>13, AppendOnce
    <3> QED
      BY <1>4, <1>11, <2>2, <3>1, <3>2
  <2> QED
    BY <2>1, <2>2
<1> QED
  BY <1>4, <1>6, <1>7, <1>8, <1>9, <1>14 DEF Midway, old

\* Where the loop over the delayed contexts ends.
LEMMA DelayedLoop ==
    ASSUME NEW q \in Sound, ~q.stop, NEW side \in PxSides, NEW ds, ds = q.list[side]["delayed"]
    PROVE  EachCx(q, "delayed", side) \subseteq Midway(q, side, ds, Len(ds))
<1> DEFINE n == Len(ds)
           K == [i \in 0 .. n |-> Midway(q, side, ds, i)]
           T == PxType
           loop == "delayed"
<1>0. /\ "sockets" \in CxLists /\ "delayed" \in CxLists /\ q \in PxType /\ PxSound(q)
      /\ loop \in LoopNames /\ LoopLists[loop] = "delayed"
  BY DEF CxLists, Sound, LoopNames, LoopLists
<1>1. ds \in Seq(Cxs)
  BY <1>0 DEF PxType
<1>2. n \in Nat /\ n \in 0 .. n /\ 0 \in 0 .. n
  BY <1>1
<1>3. VisitsIn(T, loop, side, ds)
  <2> SUFFICES ASSUME NEW t \in PxType, NEW i \in 1 .. Len(ds)
               PROVE  Visit(t, loop, side, ds[i]) \in SUBSET PxType
    BY DEF VisitsIn
  <2>1. ds[i] \in Cxs
    BY <1>1
  <2>2. Visit(t, loop, side, ds[i]) = DelayedVisit(t, side, ds[i])
    BY DEF Visit
  <2>3. \A u \in DelayedVisit(t, side, ds[i]) : u \in PxType
    BY <2>1, DelayedVisitIs
  <2> QED
    BY <2>2, <2>3
<1>4. q \in K[0]
  <2>1. Accepted(q, ds, 0) = {}
    BY DEF Accepted
  <2>2. \A c \in Cxs : Tame(q.cx[c], q.cx[c])
    BY <1>0 DEF Tame, PxType
  <2>3. IsInjective(q.list[side]["sockets"])
    <3>1. <<side, "sockets">> \in Shelves /\ Shelf(q, <<side, "sockets">>) = q.list[side]["sockets"]
      BY <1>0, ShelfIs
    <3> QED
      BY <1>0, <3>1 DEF PxSound, KeptOnce
  <2>4. q \in Midway(q, side, ds, 0)
    BY <1>0, <2>1, <2>2, <2>3 DEF Midway
  <2> QED
    BY <1>2, <2>4
<1>5. \A i \in 1 .. Len(ds) : \A r \in K[i - 1] :
         (IF r.stop THEN {r} ELSE Visit(r, loop, side, ds[i])) \subseteq K[i]
  <2> SUFFICES ASSUME NEW i \in 1 .. Len(ds), NEW r \in K[i - 1]
               PROVE  (IF r.stop THEN {r} ELSE Visit(r, loop, side, ds[i])) \subseteq K[i]
    OBVIOUS
  <2>1. K[i - 1] = Midway(q, side, ds, i - 1) /\ K[i] = Midway(q, side, ds, i)
    BY <1>2
  <2>2. Visit(r, loop, side, ds[i]) = DelayedVisit(r, side, ds[i])
    BY DEF Visit
  <2> HIDE DEF K, loop
  <2>3. r \in Midway(q, side, ds, i - 1)
    BY <2>1
  <2>4. \A u \in DelayedVisit(r, side, ds[i]) : u \in Midway(q, side, ds, i)
    BY <2>3, MidwayStep
  <2>5. ~r.stop
    BY <2>3 DEF Midway
  <2> QED
    BY <2>1, <2>2, <2>4, <2>5
<1>6. ds = q.list[side][LoopLists[loop]] /\ q \in T
  BY <1>0
<1>7. K[Len(ds)] = Midway(q, side, ds, Len(ds))
  BY <1>2
<1> HIDE DEF K, T, loop
<1>8. EachCx(q, loop, side) \subseteq K[Len(ds)]
  BY <1>0, <1>1, <1>3, <1>4, <1>5, <1>6, EachCxEnds
<1> QED
  BY <1>7, <1>8 DEF loop

\* accept_from moves the contexts that wait no more, and keeps a proxy sound.
LEMMA AcceptDelayedSound ==
    ASSUME NEW q \in Sound, ~q.stop, NEW side \in PxSides, NEW s \in AcceptDelayed(q, side)
    PROVE  s \in Sound
<1> DEFINE ds == q.list[side]["delayed"]
           A == <<side, "sockets">>
           D == <<side, "delayed">>
<1>0. "sockets" \in CxLists /\ "delayed" \in CxLists /\ "pc" \in CxLists /\ q \in PxType /\ PxSound(q)
  BY DEF CxLists, Sound
<1>1. /\ KeptOnce(q) /\ ShelvedRight(q) /\ AllAttended(q) /\ \A d \in Cxs : CxSound(q.cx[d])
  BY <1>0 DEF PxSound
<1>2. /\ A \in Shelves /\ D \in Shelves /\ A # D /\ Trash \in Shelves /\ A # Trash /\ D # Trash
      /\ Shelf(q, D) = ds /\ Shelf(q, A) = q.list[side]["sockets"]
  BY <1>0, ShelfIs, TrashIs
<1>3. PICK r \in EachCx(q, "delayed", side) : s = [r EXCEPT !.list[side]["delayed"] = Waiting(r, @)]
  BY DEF AcceptDelayed
<1>4. r \in Midway(q, side, ds, Len(ds))
  BY <1>3, DelayedLoop
<1>5. /\ r \in PxType /\ r.trash = q.trash
      /\ \A t \in PxSides, m \in CxLists :
            t # side \/ m # "sockets" => r.list[t][m] = q.list[t][m]
      /\ IsInjective(r.list[side]["sockets"])
      /\ Range(r.list[side]["sockets"]) = Range(q.list[side]["sockets"]) \cup Accepted(r, ds, Len(ds))
      /\ \A c \in Cxs : Tame(q.cx[c], r.cx[c])
      /\ \A c \in Cxs : c \notin Range(ds) => r.cx[c] = q.cx[c]
  BY <1>4 DEF Midway
<1> DEFINE W == Waiting(r, ds)
           N == {c \in Range(ds) : ~r.cx[c].wait}
<1>6. ds \in Seq(Cxs) /\ IsInjective(ds) /\ Range(ds) \subseteq Cxs /\ r.list[side]["delayed"] = ds
  <2>1. ds \in Seq(Cxs) /\ IsInjective(ds)
    BY <1>0, <1>1, <1>2, ShelfTyped DEF KeptOnce
  <2>2. Range(ds) \subseteq Cxs
    BY <2>1 DEF Range
  <2> QED
    BY <1>0, <1>5, <2>1, <2>2
<1> HIDE DEF ds
<1>7. W \in Seq(Cxs) /\ IsInjective(W) /\ Range(W) = Range(ds) \ N
  BY <1>6, WaitingIs
<1>8. Accepted(r, ds, Len(ds)) = N
  BY <1>6 DEF Accepted, Range
<1> HIDE DEF W, N, A, D
<1>9. s \in PxType /\ s.cx = r.cx /\ s.trash = q.trash /\ Relisted(r, s, side, "delayed", W)
  <2> DEFINE f == [r.list[side] EXCEPT !["delayed"] = W]
  <2>1. r.list \in [PxSides -> [CxLists -> Seq(Cxs)]]
    BY <1>5 DEF PxType
  <2>2. s = [r EXCEPT !.list = [@ EXCEPT ![side] = f]]
    BY <1>3, <1>5, <1>6, <2>1 DEF W, PxType
  <2>3. f \in [CxLists -> Seq(Cxs)] /\ f["delayed"] = W
        /\ \A m \in CxLists : m # "delayed" => f[m] = r.list[side][m]
    BY <1>0, <1>7, <2>1
  <2> HIDE DEF f
  <2>4. s \in PxType /\ s.cx = r.cx /\ s.trash = q.trash /\ s.list = [r.list EXCEPT ![side] = f]
    BY <1>5, <2>1, <2>2, <2>3 DEF PxType
  <2> QED
    BY <2>1, <2>3, <2>4 DEF Relisted
<1>10. /\ s.list[side]["delayed"] = W /\ s.list[side]["sockets"] = r.list[side]["sockets"]
       /\ \A t \in PxSides, m \in CxLists :
            t # side \/ (m # "sockets" /\ m # "delayed") => s.list[t][m] = q.list[t][m]
  BY <1>0, <1>5, <1>9 DEF Relisted
<1>11. /\ Shelf(s, D) = W /\ Shelf(s, A) = r.list[side]["sockets"]
       /\ \A k \in Shelves : k # A /\ k # D => Shelf(s, k) = Shelf(q, k)
  <2>1. Shelf(s, D) = W /\ Shelf(s, A) = r.list[side]["sockets"]
    BY <1>0, <1>10, ShelfIs DEF A, D
  <2>2. ASSUME NEW k \in Shelves, k # A, k # D PROVE Shelf(s, k) = Shelf(q, k)
    <3>1. CASE k = Trash
      BY <1>9, <3>1, TrashIs
    <3>2. CASE \E t \in PxSides, m \in CxLists : k = <<t, m>>
      <4>1. PICK t \in PxSides, m \in CxLists : k = <<t, m>>
        BY <3>2
      <4>2. Shelf(s, k) = s.list[t][m] /\ Shelf(q, k) = q.list[t][m]
        BY <4>1, ShelfIs
      <4> QED
        BY <1>10, <2>2, <4>1, <4>2 DEF A, D
    <3> QED
      BY <3>1, <3>2, ShelfCases
  <2> QED
    BY <2>1, <2>2
<1>12. /\ OnShelf(s, D) = OnShelf(q, D) \ N /\ OnShelf(s, A) = OnShelf(q, A) \cup N
       /\ \A k \in Shelves : k # A /\ k # D => OnShelf(s, k) = OnShelf(q, k)
       /\ N \subseteq OnShelf(q, D) /\ OnShelf(q, D) = Range(ds)
  <2>1. N \subseteq Range(ds)
    BY DEF N
  <2> QED
    BY <1>2, <1>5, <1>7, <1>8, <1>11, <2>1 DEF OnShelf
<1>13. \A k \in Shelves : OnShelf(q, k) \subseteq Cxs
  BY <1>0, ShelfTyped
<1>14. \A c \in Cxs : s.cx[c].st = q.cx[c].st /\ s.cx[c].perm = q.cx[c].perm
  BY <1>5, <1>9 DEF Tame
<1>15. KeptOnce(s)
  <2>1. \A k \in Shelves : IsInjective(Shelf(s, k))
    BY <1>1, <1>5, <1>7, <1>11 DEF KeptOnce
  <2>2. \A j, k \in Shelves : j # k => OnShelf(q, j) \cap OnShelf(q, k) = {}
    BY <1>1 DEF KeptOnce
  <2>3. \A j, k \in Shelves : j # k => OnShelf(s, j) \cap OnShelf(s, k) = {}
    BY <1>2, <1>12, <2>2
  <2>4. {c \in Cxs : s.cx[c].st = "live"} = {c \in Cxs : q.cx[c].st = "live"}
    BY <1>14
  <2>5. UNION {OnShelf(s, k) : k \in Shelves} = UNION {OnShelf(q, k) : k \in Shelves}
    BY <1>2, <1>12
  <2>6. {c \in Cxs : q.cx[c].st = "live"} = UNION {OnShelf(q, k) : k \in Shelves}
    BY <1>1 DEF KeptOnce
  <2> QED
    BY <2>1, <2>3, <2>4, <2>5, <2>6 DEF KeptOnce
<1>16. \A c \in Range(ds) : Good(q.cx[c]) /\ ~q.cx[c].perm /\ c \in Cxs /\ c \notin OnShelf(q, Trash)
          /\ \A t \in PxSides : c \notin Range(q.list[t]["pc"])
  <2> SUFFICES ASSUME NEW c \in Range(ds)
      PROVE Good(q.cx[c]) /\ ~q.cx[c].perm /\ c \in Cxs /\ c \notin OnShelf(q, Trash)
          /\ \A t \in PxSides : c \notin Range(q.list[t]["pc"])
    OBVIOUS
  <2>1. c \in Range(q.list[side]["delayed"])
    BY DEF ds
  <2>2. /\ c \in Cxs /\ Good(q.cx[c]) /\ q.cx[c].perm = ("delayed" = "pc") /\ c \notin OnShelf(q, Trash)
        /\ \A t \in PxSides, m \in CxLists : c \in Range(q.list[t][m]) => t = side /\ m = "delayed"
    BY <1>0, <2>1, ListedOnce
  <2> QED
    BY <1>0, <2>2
<1>17. AllAttended(s)
  <2> SUFFICES ASSUME NEW t \in PxSides, NEW c \in Range(s.list[t]["pc"]) PROVE AttendedCx(s.cx[c])
    BY DEF AllAttended
  <2>1. s.list[t]["pc"] = q.list[t]["pc"]
    BY <1>0, <1>10
  <2>2. <<t, "pc">> \in Shelves /\ OnShelf(q, <<t, "pc">>) = Range(q.list[t]["pc"])
    BY <1>0, ShelfIs DEF OnShelf
  <2>3. c \in Cxs /\ c \notin Range(ds)
    BY <1>13, <1>16, <2>1, <2>2
  <2> QED
    BY <1>1, <1>5, <1>9, <2>1, <2>3 DEF AllAttended
<1>18. ShelvedRight(s)
  <2>1. ASSUME NEW t \in PxSides, NEW m \in CxLists, NEW c \in Range(s.list[t][m])
        PROVE  s.cx[c].perm = (m = "pc")
    <3>0. <<t, m>> \in Shelves /\ OnShelf(s, <<t, m>>) = Range(s.list[t][m])
          /\ OnShelf(q, <<t, m>>) = Range(q.list[t][m])
      BY ShelfIs DEF OnShelf
    <3>1. CASE c \in Range(q.list[t][m])
      BY <1>1, <1>13, <1>14, <3>0, <3>1 DEF ShelvedRight
    <3>2. CASE c \notin Range(q.list[t][m])
      <4>1. <<t, m>> = A /\ c \in N
        BY <1>12, <3>0, <3>2
      <4>2. m = "sockets" /\ c \in Range(ds)
        BY <1>12, <4>1 DEF A
      <4>3. q.cx[c].perm \in BOOLEAN /\ ~q.cx[c].perm /\ c \in Cxs
        BY <1>16, <4>2 DEF Good, CxType
      <4> QED
        BY <1>14, <4>2, <4>3
    <3> QED
      BY <3>1, <3>2
  <2>2. ASSUME NEW c \in OnShelf(s, Trash) PROVE ~s.cx[c].mon
    BY <1>1, <1>2, <1>5, <1>9, <1>12, <1>13, <1>16 DEF ShelvedRight
  <2> QED
    BY <2>1, <2>2 DEF ShelvedRight
<1>19. \A c \in Cxs : CxSound(s.cx[c])
  <2> SUFFICES ASSUME NEW c \in Cxs PROVE CxSound(s.cx[c])
    OBVIOUS
  <2>1. CASE c \in Range(ds)
    BY <1>5, <1>9, <1>16, <2>1 DEF Tame, Good
  <2>2. CASE c \notin Range(ds)
    BY <1>1, <1>5, <1>9, <2>2
  <2> QED
    BY <2>1, <2>2
<1> QED
  BY <1>9, <1>15, <1>17, <1>18, <1>19 DEF PxSound, Sound

-----------------------------------------------------------------------------
(* A whole pass.                                                           *)

LEMMA PxTimersSound ==
    ASSUME NEW q \in Sound
    PROVE  PxTimers(q) \subseteq Sound
<1> DEFINE checked == UNION {Range(q.list[side][l]) : side \in PxSides, l \in CxLists \ {"bind"}}
           d == q.dead \/ \E c \in checked : q.cx[c].idle
<1>1. PxTimers(q) = {q, [q EXCEPT !.dead = d]}
  BY DEF PxTimers
<1>2. d \in BOOLEAN
  OBVIOUS
<1> HIDE DEF d
<1>3. [q EXCEPT !.dead = d] \in Sound
  BY <1>2, SoundFlags DEF SoundAs
<1> QED
  BY <1>1, <1>3

LEMMA BothSidesSound ==
    ASSUME NEW S \in SUBSET Sound, NEW loop \in {"read", "write", "pc"}
    PROVE  BothSides(S, loop) \subseteq Sound
<1>0. "L" \in PxSides /\ "R" \in PxSides
  BY DEF PxSides
<1>1. \A q \in Sound, side \in PxSides : Loop(q, loop, side) \subseteq Sound
  BY LoopSound
<1> QED
  BY <1>0, <1>1 DEF BothSides

LEMMA AcceptLoopSound ==
    ASSUME NEW q \in Sound, NEW side \in PxSides
    PROVE  AcceptLoop(q, side) \subseteq Sound
<1>1. \A r \in EachCx(q, "bind", side) : r \in Sound
  BY BindLoopSound
<1>2. \A r \in Sound : ~r.stop => AcceptDelayed(r, side) \subseteq Sound
  BY AcceptDelayedSound
<1> QED
  BY <1>1, <1>2 DEF AcceptLoop

LEMMA HandleSocketsOnceSound ==
    ASSUME NEW q \in Sound
    PROVE  HandleSocketsOnce(q) \subseteq Sound
<1> DEFINE pcs == BothSides(BothSides(BothSides(PxTimers(q), "read"), "write"), "pc")
<1>0. "L" \in PxSides /\ "R" \in PxSides
  BY DEF PxSides
<1>1. pcs \subseteq Sound
  <2>1. PxTimers(q) \in SUBSET Sound
    BY PxTimersSound
  <2>2. BothSides(PxTimers(q), "read") \in SUBSET Sound
    BY <2>1, BothSidesSound
  <2>3. BothSides(BothSides(PxTimers(q), "read"), "write") \in SUBSET Sound
    BY <2>2, BothSidesSound
  <2> QED
    BY <2>3, BothSidesSound
<1>2. HandleSocketsOnce(q) = pcs \cup UNION {IF r.stop THEN {r} ELSE AcceptLoop(r, "R")
                            : r \in UNION {AcceptLoop(q2, "L") : q2 \in pcs}}
  BY Zenon DEF HandleSocketsOnce
<1> HIDE DEF pcs
<1>3. \A r \in Sound, side \in PxSides : AcceptLoop(r, side) \subseteq Sound
  BY AcceptLoopSound
<1>4. UNION {AcceptLoop(q2, "L") : q2 \in pcs} \subseteq Sound
  BY <1>0, <1>1, <1>3
<1> QED
  BY <1>0, <1>1, <1>2, <1>3, <1>4

-----------------------------------------------------------------------------
(* The end of the proxy.                                                   *)

LEMMA ConcatOnce ==
    ASSUME NEW S, NEW s \in Seq(S), NEW t \in Seq(S), IsInjective(s), IsInjective(t),
           Range(s) \cap Range(t) = {}
    PROVE  s \o t \in Seq(S) /\ IsInjective(s \o t) /\ Range(s \o t) = Range(s) \cup Range(t)
<1> DEFINE u == s \o t
           m == Len(s)
           n == Len(t)
<1>1. /\ u \in Seq(S) /\ m \in Nat /\ n \in Nat /\ Len(u) = m + n
      /\ \A i \in 1 .. m + n : u[i] = IF i <= m THEN s[i] ELSE t[i - m]
  OBVIOUS
<1>2. DOMAIN s = 1 .. m /\ DOMAIN t = 1 .. n /\ DOMAIN u = 1 .. m + n
  BY <1>1
<1> HIDE DEF u, m, n
<1>3. \A i \in 1 .. m : \A j \in 1 .. n : s[i] # t[j]
  BY <1>2 DEF Range
<1>4. \A i \in 1 .. m + n : (i \in 1 .. m /\ u[i] = s[i]) \/ (i > m /\ i - m \in 1 .. n /\ u[i] = t[i - m])
  BY <1>1
<1>5. IsInjective(u)
  <2> SUFFICES ASSUME NEW i \in 1 .. m + n, NEW j \in 1 .. m + n, u[i] = u[j] PROVE i = j
    BY <1>2 DEF IsInjective
  <2>1. CASE i \in 1 .. m /\ j \in 1 .. m
    <3>1. s[i] = s[j]
      BY <1>1, <1>4, <2>1
    <3> QED
      BY <1>2, <2>1, <3>1 DEF IsInjective
  <2>2. CASE i > m /\ j > m
    <3>1. i - m \in 1 .. n /\ j - m \in 1 .. n /\ t[i - m] = t[j - m]
      BY <1>1, <1>4, <2>2
    <3>2. i - m = j - m
      BY <1>2, <3>1 DEF IsInjective
    <3> QED
      BY <1>1, <3>2
  <2>3. CASE ~(i \in 1 .. m /\ j \in 1 .. m) /\ ~(i > m /\ j > m)
    BY <1>1, <1>3, <1>4, <2>3
  <2> QED
    BY <2>1, <2>2, <2>3
<1>6. Range(u) = Range(s) \cup Range(t)
  <2>1. \A i \in 1 .. m : i \in 1 .. m + n /\ u[i] = s[i]
    BY <1>1
  <2>2. \A j \in 1 .. n : j + m \in 1 .. m + n /\ u[j + m] = t[j]
    BY <1>1
  <2>3. Range(s) \subseteq Range(u) /\ Range(t) \subseteq Range(u)
    BY <1>2, <2>1, <2>2 DEF Range
  <2>4. Range(u) \subseteq Range(s) \cup Range(t)
    BY <1>2, <1>4 DEF Range
  <2> QED
    BY <2>3, <2>4
<1> QED
  BY <1>1, <1>5, <1>6 DEF u

\* The contexts of a side, in the order of drop_cx.
LEMMA CxsOfIs ==
    ASSUME NEW q \in Sound, NEW side \in PxSides
    PROVE  /\ CxsOf(q, side) \in Seq(Cxs) /\ IsInjective(CxsOf(q, side))
           /\ Range(CxsOf(q, side)) = UNION {OnShelf(q, <<side, l>>) : l \in CxLists}
<1> DEFINE s(l) == q.list[side][l]
<1>0. q \in PxType /\ KeptOnce(q)
  BY DEF Sound, PxSound
<1>1. \A l \in CxLists : s(l) \in Seq(Cxs) /\ IsInjective(s(l)) /\ Range(s(l)) = OnShelf(q, <<side, l>>)
  BY <1>0, ShelfIs, ShelfTyped DEF KeptOnce, OnShelf
<1>2. \A l, m \in CxLists : l # m => Range(s(l)) \cap Range(s(m)) = {}
  <2> SUFFICES ASSUME NEW l \in CxLists, NEW m \in CxLists, l # m
               PROVE  Range(s(l)) \cap Range(s(m)) = {}
    OBVIOUS
  <2>1. <<side, l>> \in Shelves /\ <<side, m>> \in Shelves /\ <<side, l>> # <<side, m>>
    BY ShelfIs
  <2> QED
    BY <1>0, <1>1, <2>1 DEF KeptOnce
<1> DEFINE a == s("bind")
           b == s("sockets")
           c == s("pc")
           d == s("delayed")
<1>3. /\ a \in Seq(Cxs) /\ b \in Seq(Cxs) /\ c \in Seq(Cxs) /\ d \in Seq(Cxs)
      /\ IsInjective(a) /\ IsInjective(b) /\ IsInjective(c) /\ IsInjective(d)
      /\ Range(a) \cap Range(b) = {} /\ Range(a) \cap Range(c) = {} /\ Range(a) \cap Range(d) = {}
      /\ Range(b) \cap Range(c) = {} /\ Range(b) \cap Range(d) = {} /\ Range(c) \cap Range(d) = {}
  BY <1>1, <1>2 DEF CxLists
<1>4. UNION {OnShelf(q, <<side, l>>) : l \in CxLists} = Range(a) \cup Range(b) \cup Range(c) \cup Range(d)
  BY <1>1 DEF CxLists
<1>5. CxsOf(q, side) = ((a \o b) \o c) \o d
  BY DEF CxsOf
<1> HIDE DEF a, b, c, d
<1> DEFINE e == a \o b
           f == e \o c
<1>6. e \in Seq(Cxs) /\ IsInjective(e) /\ Range(e) = Range(a) \cup Range(b)
  BY <1>3, ConcatOnce
<1> HIDE DEF e
<1>7. f \in Seq(Cxs) /\ IsInjective(f) /\ Range(f) = Range(e) \cup Range(c)
  BY <1>3, <1>6, ConcatOnce
<1> HIDE DEF f
<1>8. f \o d \in Seq(Cxs) /\ IsInjective(f \o d) /\ Range(f \o d) = Range(f) \cup Range(d)
  BY <1>3, <1>6, <1>7, ConcatOnce
<1> QED
  BY <1>4, <1>5, <1>6, <1>7, <1>8 DEF e, f

\* Everything in the lists.
AllListed(q) == UNION {UNION {OnShelf(q, <<side, l>>) : l \in CxLists} : side \in PxSides}

LEMMA ListedIs ==
    ASSUME NEW q \in Sound
    PROVE  /\ UNION {OnShelf(q, k) : k \in Shelves} = AllListed(q) \cup OnShelf(q, Trash)
           /\ AllListed(q) \cap OnShelf(q, Trash) = {}
           /\ \A c \in AllListed(q) : c \in Cxs /\ Good(q.cx[c])
<1>0. q \in PxType /\ PxSound(q) /\ KeptOnce(q)
  BY DEF Sound, PxSound
<1>1. UNION {OnShelf(q, k) : k \in Shelves} \subseteq AllListed(q) \cup OnShelf(q, Trash)
  BY ShelfCases DEF AllListed
<1>2. AllListed(q) \cup OnShelf(q, Trash) \subseteq UNION {OnShelf(q, k) : k \in Shelves}
  BY ShelfIs, TrashIs DEF AllListed
<1>3. ASSUME NEW c \in AllListed(q) PROVE c \in Cxs /\ Good(q.cx[c]) /\ c \notin OnShelf(q, Trash)
  <2>1. PICK side \in PxSides, l \in CxLists : c \in OnShelf(q, <<side, l>>)
    BY DEF AllListed
  <2>2. c \in Range(q.list[side][l])
    BY <2>1, ShelfIs DEF OnShelf
  <2> QED
    BY <1>0, <2>2, ListedOnce
<1> QED
  BY <1>1, <1>2, <1>3

\* The lists, and the trash can with the lists behind it, hold their contexts once.
LEMMA EachOnce ==
    ASSUME NEW q \in Sound, NEW all, all = CxsOf(q, "L") \o CxsOf(q, "R")
    PROVE  /\ all \in Seq(Cxs) /\ IsInjective(all) /\ Range(all) = AllListed(q)
           /\ q.trash \o all \in Seq(Cxs) /\ IsInjective(q.trash \o all)
           /\ Range(q.trash \o all) = OnShelf(q, Trash) \cup AllListed(q)
<1>0. q \in PxType /\ KeptOnce(q)
  BY DEF Sound, PxSound
<1>1. all \in Seq(Cxs) /\ IsInjective(all) /\ Range(all) = AllListed(q)
  <2> DEFINE a == CxsOf(q, "L")
             b == CxsOf(q, "R")
  <2>0. "L" \in PxSides /\ "R" \in PxSides /\ "L" # "R"
    BY DEF PxSides
  <2>1. /\ a \in Seq(Cxs) /\ b \in Seq(Cxs) /\ IsInjective(a) /\ IsInjective(b)
        /\ Range(a) = UNION {OnShelf(q, <<"L", l>>) : l \in CxLists}
        /\ Range(b) = UNION {OnShelf(q, <<"R", l>>) : l \in CxLists}
    BY <2>0, CxsOfIs
  <2>2. \A l, m \in CxLists : OnShelf(q, <<"L", l>>) \cap OnShelf(q, <<"R", m>>) = {}
    <3> SUFFICES ASSUME NEW l \in CxLists, NEW m \in CxLists
                 PROVE  OnShelf(q, <<"L", l>>) \cap OnShelf(q, <<"R", m>>) = {}
      OBVIOUS
    <3>1. <<"L", l>> \in Shelves /\ <<"R", m>> \in Shelves /\ <<"L", l>> # <<"R", m>>
      BY <2>0, ShelfIs
    <3> QED
      BY <1>0, <3>1 DEF KeptOnce
  <2>3. Range(a) \cap Range(b) = {}
    <3> SUFFICES ASSUME NEW c \in Range(a), c \in Range(b) PROVE FALSE
      OBVIOUS
    <3> HIDE DEF a, b
    <3>1. PICK l \in CxLists : c \in OnShelf(q, <<"L", l>>)
      BY <2>1
    <3>2. PICK m \in CxLists : c \in OnShelf(q, <<"R", m>>)
      BY <2>1
    <3> QED
      BY <2>2, <3>1, <3>2
  <2> HIDE DEF a, b
  <2>4. a \o b \in Seq(Cxs) /\ IsInjective(a \o b) /\ Range(a \o b) = Range(a) \cup Range(b)
    BY <2>1, <2>3, ConcatOnce
  <2>5. AllListed(q) = Range(a) \cup Range(b)
    BY <2>1 DEF AllListed, PxSides
  <2> QED
    BY <2>4, <2>5 DEF a, b
<1>2. q.trash \in Seq(Cxs) /\ IsInjective(q.trash) /\ Range(q.trash) = OnShelf(q, Trash)
  BY <1>0, TrashIs DEF PxType, KeptOnce, OnShelf
<1>3. /\ q.trash \o all \in Seq(Cxs) /\ IsInjective(q.trash \o all)
      /\ Range(q.trash \o all) = OnShelf(q, Trash) \cup AllListed(q)
  <2>1. Range(q.trash) \cap Range(all) = {}
    BY <1>1, <1>2, ListedIs
  <2> DEFINE t == q.trash
             u == all
  <2>2. /\ t \in Seq(Cxs) /\ IsInjective(t) /\ Range(t) \cap Range(u) = {}
        /\ u \in Seq(Cxs) /\ IsInjective(u)
    BY <1>1, <1>2, <2>1
  <2> HIDE DEF t, u
  <2>3. t \o u \in Seq(Cxs) /\ IsInjective(t \o u) /\ Range(t \o u) = Range(t) \cup Range(u)
    BY <2>2, ConcatOnce
  <2>4. Range(u) = AllListed(q) /\ Range(t) = OnShelf(q, Trash)
    BY <1>1, <1>2 DEF t, u
  <2>5. q.trash \o all = t \o u
    BY DEF t, u
  <2> QED
    BY <2>3, <2>4, <2>5
<1> QED
  BY <1>1, <1>3

\* left_shutdown and right_shutdown: every context of the lists is closed and
\* goes to the trash can, once.
LEMMA ShutdownProxySound ==
    ASSUME NEW q \in Sound, NEW r, r = ShutdownProxy(q)
    PROVE  r \in Sound /\ \A side \in PxSides, l \in CxLists : r.list[side][l] = <<>>
<1> DEFINE all == CxsOf(q, "L") \o CxsOf(q, "R")
           new(c) == IF c \in Range(all) THEN Closed(q.cx[c]) ELSE q.cx[c]
<1>0. q \in PxType /\ PxSound(q) /\ KeptOnce(q) /\ ShelvedRight(q) /\ (\A c \in Cxs : CxSound(q.cx[c]))
  BY DEF Sound, PxSound
<1>1. /\ all \in Seq(Cxs) /\ IsInjective(all) /\ Range(all) = AllListed(q)
      /\ q.trash \o all \in Seq(Cxs) /\ IsInjective(q.trash \o all)
      /\ Range(q.trash \o all) = OnShelf(q, Trash) \cup AllListed(q)
  BY EachOnce
<1>2. r = [q EXCEPT !.cx = [c \in Cxs |-> new(c)], !.trash = q.trash \o all,
                    !.list = [side \in PxSides |-> [l \in CxLists |-> <<>>]]]
  BY Zenon DEF ShutdownProxy
<1> HIDE DEF all
<1>3. \A c \in Cxs : q.cx[c] \in CxType /\ Tame(q.cx[c], Closed(q.cx[c]))
  BY <1>0, ClosedTame DEF PxType
<1>4. \A c \in Cxs : new(c) \in CxType /\ new(c).st = q.cx[c].st /\ new(c).perm = q.cx[c].perm
  BY <1>3 DEF Tame
<1> HIDE DEF new
<1>7. /\ r \in PxType /\ r.trash = q.trash \o all /\ \A c \in Cxs : r.cx[c] = new(c)
      /\ \A side \in PxSides, l \in CxLists : r.list[side][l] = <<>>
  <2> DEFINE f == [c \in Cxs |-> new(c)]
             e == [side \in PxSides |-> [l \in CxLists |-> <<>>]]
             t == q.trash \o all
  <2>1. f \in [Cxs -> CxType] /\ (\A c \in Cxs : f[c] = new(c)) /\ t \in Seq(Cxs)
    BY <1>4, <1>1
  <2>2. /\ e \in [PxSides -> [CxLists -> Seq(Cxs)]]
        /\ \A side \in PxSides, l \in CxLists : e[side][l] = <<>>
    OBVIOUS
  <2>3. r = [q EXCEPT !.cx = f, !.trash = t, !.list = e]
    BY <1>2
  <2> HIDE DEF f, e, t
  <2>4. r \in PxType /\ r.cx = f /\ r.trash = t /\ r.list = e
    BY <1>0, <2>1, <2>2, <2>3 DEF PxType
  <2> QED
    BY <2>1, <2>2, <2>4 DEF t
<1>8. /\ OnShelf(r, Trash) = OnShelf(q, Trash) \cup AllListed(q) /\ IsInjective(Shelf(r, Trash))
      /\ \A k \in Shelves : k # Trash => OnShelf(r, k) = {} /\ IsInjective(Shelf(r, k))
  <2>1. OnShelf(r, Trash) = OnShelf(q, Trash) \cup AllListed(q) /\ IsInjective(Shelf(r, Trash))
    BY <1>1, <1>7, TrashIs DEF OnShelf
  <2>2. ASSUME NEW k \in Shelves, k # Trash PROVE Shelf(r, k) = <<>>
    BY <1>7, <2>2, ShelfCases, ShelfIs
  <2>3. IsInjective(<<>>) /\ Range(<<>>) = {}
    BY DEF IsInjective, Range
  <2> QED
    BY <2>1, <2>2, <2>3 DEF OnShelf
<1>9. KeptOnce(r)
  <2>1. \A j, k \in Shelves : j # k => OnShelf(r, j) \cap OnShelf(r, k) = {}
    BY <1>8
  <2>2. UNION {OnShelf(r, k) : k \in Shelves} = OnShelf(r, Trash)
    BY <1>8, TrashIs
  <2>3. {c \in Cxs : r.cx[c].st = "live"} = {c \in Cxs : q.cx[c].st = "live"}
    BY <1>4, <1>7
  <2>4. {c \in Cxs : q.cx[c].st = "live"} = UNION {OnShelf(q, k) : k \in Shelves}
    BY <1>0 DEF KeptOnce
  <2>5. {c \in Cxs : r.cx[c].st = "live"} = UNION {OnShelf(r, k) : k \in Shelves}
    BY <1>8, <2>2, <2>3, <2>4, ListedIs
  <2> QED
    BY <1>8, <2>1, <2>5 DEF KeptOnce
<1>10. AllAttended(r) /\ \A side \in PxSides, l \in CxLists : Range(r.list[side][l]) = {}
  <2>1. Range(<<>>) = {}
    BY DEF Range
  <2>2. "pc" \in CxLists
    BY DEF CxLists
  <2> QED
    BY <1>7, <2>1, <2>2 DEF AllAttended
<1>11. ASSUME NEW c \in Cxs PROVE CxSound(new(c)) /\ (c \in OnShelf(r, Trash) => ~new(c).mon)
  <2>1. CASE c \in AllListed(q)
    <3>1. new(c) = Closed(q.cx[c]) /\ Good(q.cx[c])
      BY <1>1, <2>1, ListedIs DEF new
    <3>2. Tame(q.cx[c], Closed(q.cx[c])) /\ Closed(q.cx[c]).fd = NoSock
      BY <1>3, ClosedTame
    <3>3. Good(new(c)) /\ new(c).fd = NoSock
      BY <3>1, <3>2 DEF Tame
    <3> QED
      BY <3>3 DEF Good, CxSound, NoSock, LiveFd
  <2>2. CASE c \notin AllListed(q)
    BY <1>0, <1>1, <1>8, <2>2 DEF new, ShelvedRight
  <2> QED
    BY <2>1, <2>2
<1>12. ShelvedRight(r)
  <2>1. OnShelf(r, Trash) \subseteq Cxs
    BY <1>7, TrashIs, ShelfTyped
  <2> QED
    BY <1>7, <1>10, <1>11, <2>1 DEF ShelvedRight
<1>13. PxSound(r)
  BY <1>7, <1>9, <1>10, <1>11, <1>12 DEF PxSound
<1> QED
  BY <1>7, <1>13 DEF Sound

-----------------------------------------------------------------------------
(* The steps of the proxy and of its owner.                                *)

LEMMA PxPassSound ==
    ASSUME px \in Sound, PxPass
    PROVE  px' \in Sound
<1>1. PICK r \in HandleSocketsOnce(px), errset \in BOOLEAN :
         LET q == [r EXCEPT !.dead = @ \/ (errset /\ ~r.stop)]
         IN  px' \in IF q.stop THEN {[q EXCEPT !.stop = FALSE]}
                     ELSE PxTimers(IF q.dead THEN ShutdownProxy(q) ELSE q)
  BY DEF PxPass
<1> DEFINE d == r.dead \/ (errset /\ ~r.stop)
           q == [r EXCEPT !.dead = d]
<1>2. r \in Sound /\ d \in BOOLEAN
  BY HandleSocketsOnceSound
<1>3. \/ q.stop /\ px' = [q EXCEPT !.stop = FALSE]
      \/ px' \in PxTimers(ShutdownProxy(q)) \/ px' \in PxTimers(q)
  BY <1>1
<1> HIDE DEF d
<1>4. q \in Sound
  BY <1>2, SoundFlags DEF SoundAs
<1> HIDE DEF q
<1>5. [q EXCEPT !.stop = FALSE] \in Sound
  BY <1>4, SoundFlags DEF SoundAs
<1>6. ShutdownProxy(q) \in Sound
  BY <1>4, ShutdownProxySound
<1>7. PxTimers(ShutdownProxy(q)) \subseteq Sound /\ PxTimers(q) \subseteq Sound
  BY <1>4, <1>6, PxTimersSound
<1> QED
  BY <1>3, <1>5, <1>7

LEMMA OwnerAddsSound ==
    ASSUME px \in Sound, NEW side \in PxSides, NEW l \in CxLists, NEW c \in Cxs,
           Unmade(c), px' = AddNewCx(px, side, l, c)
    PROVE  px' \in Sound
<1>1. c \in FreshCx(px)
  BY DEF Unmade
<1> DEFINE q == px
           r == px'
<1>2. q \in Sound /\ c \in FreshCx(q) /\ r = AddNewCx(q, side, l, c)
  BY <1>1
<1> HIDE DEF q, r
<1>3. r \in Sound
  BY <1>2, AddNew
<1> QED
  BY <1>3 DEF r

\* A context that could not connect is not kept.
LEMMA OneOrphaned ==
    ASSUME NEW q \in Sound, NEW c \in Cxs, q.cx[c].st # "live", NEW y, CxSound(y), y.st # "live",
           NEW r \in PxType, Recast(q, r, c, y), r.list = q.list, r.trash = q.trash
    PROVE  r \in Sound
<1>0. q \in PxType /\ KeptOnce(q) /\ ShelvedRight(q) /\ AllAttended(q) /\ \A d \in Cxs : CxSound(q.cx[d])
  BY DEF Sound, PxSound
<1>1. \A k : Shelf(r, k) = Shelf(q, k) /\ OnShelf(r, k) = OnShelf(q, k)
  BY DEF Shelf, OnShelf
<1>2. \A k \in Shelves : \A d \in OnShelf(q, k) : d \in Cxs /\ r.cx[d] = q.cx[d]
  BY <1>0, ShelfTyped DEF KeptOnce, Recast
<1>3. \A s \in PxSides, l \in CxLists : \A d \in Range(q.list[s][l]) : r.cx[d] = q.cx[d]
  BY <1>2, ShelfIs DEF OnShelf
<1>4. {d \in Cxs : r.cx[d].st = "live"} = {d \in Cxs : q.cx[d].st = "live"}
  BY DEF Recast
<1>5. KeptOnce(r)
  BY <1>0, <1>1, <1>4 DEF KeptOnce
<1>6. AllAttended(r)
  BY <1>0, <1>3 DEF AllAttended, CxLists
<1>7. ShelvedRight(r)
  BY <1>0, <1>1, <1>2, <1>3, TrashIs DEF ShelvedRight
<1>8. \A d \in Cxs : CxSound(r.cx[d])
  BY <1>0 DEF Recast
<1> QED
  BY <1>5, <1>6, <1>7, <1>8 DEF Sound, PxSound

LEMMA ConnectPermanentSound ==
    ASSUME px \in Sound, NEW side \in PxSides, NEW c \in Cxs, ConnectPermanent(side, c)
    PROVE  px' \in Sound
<1> DEFINE n == NewCx(NoSock, FALSE)
           x(f) == [n EXCEPT !.fd = f, !.err = FALSE, !.opening = TRUE, !.late = FALSE,
                             !.idle = FALSE]
           p == [px EXCEPT !.cx[c] = n]
<1>1. px \in PxType /\ PxSound(px) /\ px.cx[c].st # "live" /\ "pc" \in CxLists
  BY FreshCxIs DEF ConnectPermanent, Unmade, Sound, CxLists
<1>2. PICK q \in ConnectCx(p, c) : px' = IF q.cx[c].fd = LiveFd THEN AddCx(q, side, "pc", c)
                                         ELSE [q EXCEPT !.cx[c].st = "orphan"]
  BY DEF ConnectPermanent
<1>3. PICK f \in {LiveFd, FailedFd} :
         q = [p EXCEPT !.cx[c] = [@ EXCEPT !.fd = f, !.err = FALSE, !.opening = TRUE,
                                           !.late = FALSE, !.idle = FALSE]]
  BY <1>2 DEF ConnectCx
<1>4. /\ n \in CxType /\ n.closing = NoSock /\ n.st = "live" /\ ~n.leaked /\ ~n.mon
  BY NewCxIs DEF CxFds
<1> HIDE DEF n
<1>5. /\ x(f) \in CxType /\ x(f).closing = NoSock /\ x(f).st = "live" /\ ~x(f).leaked
      /\ ~x(f).mon /\ x(f).fd = f
  BY <1>4 DEF CxType, CxFds
<1>6. p \in PxType /\ p.cx = [px.cx EXCEPT ![c] = n] /\ p.cx[c] = n /\ p.list = px.list /\ p.trash = px.trash
  BY <1>1, <1>4 DEF PxType
<1> HIDE DEF p
<1>7. q = [p EXCEPT !.cx = [p.cx EXCEPT ![c] = x(f)]]
  BY <1>3, <1>6
<1> HIDE DEF x
<1>8. q \in PxType /\ q.cx = [px.cx EXCEPT ![c] = x(f)] /\ q.list = px.list /\ q.trash = px.trash
  <2>1. p.cx \in [Cxs -> CxType] /\ px.cx \in [Cxs -> CxType]
    BY <1>1, <1>6 DEF PxType
  <2> DEFINE g == [p.cx EXCEPT ![c] = x(f)]
  <2>2. g \in [Cxs -> CxType] /\ g = [px.cx EXCEPT ![c] = x(f)]
    BY <1>5, <1>6, <2>1
  <2> HIDE DEF g
  <2>3. q = [p EXCEPT !.cx = g]
    BY <1>7 DEF g
  <2> QED
    BY <1>6, <2>2, <2>3 DEF PxType
<1>9. Recast(px, q, c, x(f)) /\ q.cx[c] = x(f)
  BY <1>1, <1>8 DEF Recast, PxType
<1>10. CASE f = LiveFd
  <2>1. px' = AddCx(q, side, "pc", c)
    BY <1>2, <1>5, <1>9, <1>10
  <2> DEFINE r == px'
             o == px
             y == x(f)
  <2>2. /\ PxSound(o) /\ o.cx[c].st # "live" /\ y \in CxType /\ y.fd = LiveFd /\ y.closing = NoSock
        /\ y.st = "live" /\ ~y.leaked /\ Recast(o, q, c, y) /\ q.list = o.list /\ q.trash = o.trash
        /\ r = AddCx(q, side, "pc", c)
    BY <1>1, <1>5, <1>8, <1>9, <1>10, <2>1
  <2> HIDE DEF r, o, y
  <2>3. PxSound(r)
    BY <1>1, <1>8, <2>2, AddFresh
  <2> QED
    BY <2>3 DEF r, Sound, PxSound
<1>11. CASE f = FailedFd
  <2>1. px' = [q EXCEPT !.cx[c].st = "orphan"]
    BY <1>2, <1>5, <1>9, <1>11 DEF LiveFd, FailedFd
  <2> DEFINE y == [x(f) EXCEPT !.st = "orphan"]
             r == px'
             o == px
  <2>2. y \in CxType /\ CxSound(y) /\ y.st # "live"
    BY <1>5 DEF CxType, CxSound
  <2>3. r \in PxType /\ r.list = q.list /\ r.trash = q.trash /\ r.cx = [q.cx EXCEPT ![c] = y]
    BY <1>8, <1>9, <2>1, <2>2 DEF PxType
  <2> HIDE DEF y
  <2>4. Recast(o, r, c, y) /\ r.list = o.list /\ r.trash = o.trash /\ o \in Sound /\ o.cx[c].st # "live"
    <3>1. q.cx \in [Cxs -> CxType]
      BY <1>8 DEF PxType
    <3> QED
      BY <1>1, <1>8, <1>9, <2>3, <3>1 DEF Recast
  <2> HIDE DEF r, o
  <2>5. r \in Sound
    BY <2>2, <2>3, <2>4, OneOrphaned DEF r
  <2> QED
    BY <2>5 DEF r
<1> QED
  BY <1>10, <1>11

\* A context that ages is as attended as before.
LEMMA AgesSound ==
    ASSUME px \in Sound, NEW c \in Cxs, Listed(c), NEW y,
           Tame(px.cx[c], y), AttendedCx(px.cx[c]) => AttendedCx(y),
           px' = [px EXCEPT !.cx = [@ EXCEPT ![c] = y]]
    PROVE  px' \in Sound
<1> DEFINE q == px
           r == px'
<1>1. PICK side \in PxSides, l \in CxLists \ {"bind"} : c \in Range(q.list[side][l])
  BY DEF Listed
<1>2. q \in PxType /\ PxSound(q) /\ q.stop \in BOOLEAN
  BY DEF Sound, PxType
<1>3. r = Put(q, c, y, q.stop)
  BY <1>2 DEF Put, PxType
<1>4. Tame(q.cx[c], y) /\ (AttendedCx(q.cx[c]) => AttendedCx(y))
  OBVIOUS
<1> HIDE DEF q, r
<1>5. r \in Of(q, c) /\ r.cx[c] = y
  BY <1>2, <1>3, <1>4, PutOf
<1>6. l = "pc" => AttendedCx(r.cx[c])
  BY <1>1, <1>2, <1>4, <1>5 DEF PxSound, AllAttended
<1>7. PxSound(r)
  BY <1>1, <1>2, <1>5, <1>6, OneChanged
<1> QED
  BY <1>7 DEF r, Sound, PxSound

LEMMA AgeingSound ==
    ASSUME px \in Sound, NEW c \in Cxs, OpeningAges(c) \/ ReconnectAges(c) \/ IdleAges(c)
    PROVE  px' \in Sound
<1> DEFINE x == px.cx[c]
<1>0. px \in PxType /\ x \in CxType /\ Listed(c)
  BY DEF Sound, PxType, OpeningAges, ReconnectAges, IdleAges, Settled
<1>1. CASE OpeningAges(c)
  <2> DEFINE y == [x EXCEPT !.late = TRUE]
  <2>1. Tame(x, y) /\ (AttendedCx(x) => AttendedCx(y))
    BY <1>0 DEF Tame, Good, CxSound, CxType, AttendedCx
  <2>2. px' = [px EXCEPT !.cx = [@ EXCEPT ![c] = y]]
    BY <1>1 DEF OpeningAges
  <2> HIDE DEF y
  <2> QED
    BY <1>0, <2>1, <2>2, AgesSound
<1>2. CASE ReconnectAges(c)
  <2> DEFINE y == [x EXCEPT !.due = TRUE]
  <2>1. Tame(x, y) /\ (AttendedCx(x) => AttendedCx(y))
    BY <1>0 DEF Tame, Good, CxSound, CxType, AttendedCx
  <2>2. px' = [px EXCEPT !.cx = [@ EXCEPT ![c] = y]]
    BY <1>2 DEF ReconnectAges
  <2> HIDE DEF y
  <2> QED
    BY <1>0, <2>1, <2>2, AgesSound
<1>3. CASE IdleAges(c)
  <2> DEFINE y == [x EXCEPT !.idle = TRUE]
  <2>1. Tame(x, y) /\ (AttendedCx(x) => AttendedCx(y))
    BY <1>0 DEF Tame, Good, CxSound, CxType, AttendedCx
  <2>2. px' = [px EXCEPT !.cx = [@ EXCEPT ![c] = y]]
    BY <1>3 DEF IdleAges
  <2> HIDE DEF y
  <2> QED
    BY <1>0, <2>1, <2>2, AgesSound
<1> QED
  BY <1>1, <1>2, <1>3

\* The destructor: what was kept is freed.
LEMMA DestroyProxySound ==
    ASSUME px \in Sound, DestroyProxy
    PROVE  px' \in Sound
<1> DEFINE q == ShutdownProxy(px)
           freed == Range(q.trash)
           ended(x) == [x EXCEPT !.st = "freed", !.fd = NoSock, !.closing = NoSock]
           new == [c \in Cxs |-> IF c \in freed THEN ended(q.cx[c]) ELSE q.cx[c]]
           r == px'
<1>1. q \in Sound /\ \A side \in PxSides, l \in CxLists : q.list[side][l] = <<>>
  BY ShutdownProxySound
<1>2. r = [q EXCEPT !.gone = TRUE, !.dead = TRUE, !.trash = <<>>, !.cx = new]
  BY DEF DestroyProxy
<1> HIDE DEF q, r
<1>3. q \in PxType /\ KeptOnce(q) /\ ShelvedRight(q) /\ (\A c \in Cxs : CxSound(q.cx[c]))
  BY <1>1 DEF Sound, PxSound
<1>4. \A c \in Cxs : q.cx[c] \in CxType /\ ended(q.cx[c]) \in CxType
  <2>1. ASSUME NEW x \in CxType PROVE ended(x) \in CxType
    BY DEF CxType, CxFds
  <2>2. \A c \in Cxs : q.cx[c] \in CxType
    BY <1>3 DEF PxType
  <2> QED
    BY <2>1, <2>2
<1>5. new \in [Cxs -> CxType]
  BY <1>4
<1>6. freed = OnShelf(q, Trash)
  BY TrashIs DEF OnShelf
<1>7. ASSUME NEW c \in Cxs PROVE CxSound(new[c]) /\ new[c].st # "live"
  <2>1. CASE c \in freed
    <3>1. ~q.cx[c].mon /\ CxSound(q.cx[c]) /\ new[c] = ended(q.cx[c])
      BY <1>3, <1>6, <2>1 DEF ShelvedRight
    <3>2. ASSUME NEW x \in CxType, ~x.mon, CxSound(x)
          PROVE  CxSound(ended(x)) /\ ended(x).st # "live"
      BY <3>2 DEF CxSound, CxType, NoSock
    <3> QED
      BY <1>4, <3>1, <3>2
  <2>2. CASE c \notin freed
    <3>1. \A k \in Shelves : c \notin OnShelf(q, k)
      <4>1. ASSUME NEW k \in Shelves, k # Trash PROVE OnShelf(q, k) = {}
        <5>1. Shelf(q, k) = <<>>
          BY <1>1, <4>1, ShelfCases, ShelfIs
        <5> QED
          BY <5>1 DEF OnShelf, Range
      <4> QED
        BY <1>6, <2>2, <4>1
    <3>2. q.cx[c].st # "live"
      BY <1>3, <3>1 DEF KeptOnce
    <3>3. new[c] = q.cx[c]
      BY <2>2
    <3> QED
      BY <1>3, <3>2, <3>3
  <2> QED
    BY <2>1, <2>2
<1> HIDE DEF new
<1>8. r \in PxType /\ r.cx = new /\ r.trash = <<>> /\ r.list = q.list
  <2> DEFINE e == <<>>
  <2>1. e \in Seq(Cxs) /\ r = [q EXCEPT !.gone = TRUE, !.dead = TRUE, !.trash = e, !.cx = new]
    BY <1>2
  <2> HIDE DEF e
  <2>2. r \in PxType /\ r.cx = new /\ r.trash = e /\ r.list = q.list
    BY <1>3, <1>5, <2>1 DEF PxType
  <2> QED
    BY <2>2 DEF e
<1>9. \A k \in Shelves : Shelf(r, k) = <<>>
  <2> SUFFICES ASSUME NEW k \in Shelves PROVE Shelf(r, k) = <<>>
    OBVIOUS
  <2>1. CASE k = Trash
    BY <1>8, <2>1, TrashIs
  <2>2. CASE \E side \in PxSides, l \in CxLists : k = <<side, l>>
    BY <1>1, <1>8, <2>2, ShelfIs
  <2> QED
    BY <2>1, <2>2, ShelfCases
<1>10. IsInjective(<<>>) /\ Range(<<>>) = {}
  BY DEF IsInjective, Range
<1>11. \A k \in Shelves : IsInjective(Shelf(r, k)) /\ OnShelf(r, k) = {}
  BY <1>9, <1>10 DEF OnShelf
<1>12. KeptOnce(r)
  <2>1. {c \in Cxs : r.cx[c].st = "live"} = {}
    BY <1>7, <1>8
  <2> QED
    BY <1>11, <2>1 DEF KeptOnce
<1>13. \A side \in PxSides, l \in CxLists : Range(r.list[side][l]) = {}
  BY <1>1, <1>8, <1>10
<1>14. AllAttended(r)
  BY <1>13 DEF AllAttended, CxLists
<1>15. ShelvedRight(r)
  BY <1>11, <1>13, TrashIs DEF ShelvedRight
<1>16. PxSound(r)
  BY <1>7, <1>8, <1>12, <1>14, <1>15 DEF PxSound
<1> QED
  BY <1>8, <1>16 DEF Sound, r

-----------------------------------------------------------------------------
(* The theorems.                                                           *)

LEMMA PxInitSound ==
    ASSUME PxInit
    PROVE  px \in Sound
<1> DEFINE x == [NewCx(NoSock, FALSE) EXCEPT !.st = "none"]
           e == <<>>
           f == [side \in PxSides |-> [l \in CxLists |-> e]]
           g == [c \in Cxs |-> x]
<1>1. PICK locked \in BOOLEAN :
         px = [list |-> f, trash |-> e, cx |-> g, locked |-> locked, dead |-> FALSE,
               gone |-> FALSE, stop |-> FALSE]
  BY DEF PxInit
<1>2. x \in CxType /\ CxSound(x) /\ x.st # "live"
  <2>1. NewCx(NoSock, FALSE) \in CxType /\ ~NewCx(NoSock, FALSE).mon /\ ~NewCx(NoSock, FALSE).leaked
        /\ NewCx(NoSock, FALSE).fd = NoSock
    BY NewCxIs DEF CxFds
  <2> QED
    BY <2>1 DEF CxType, CxSound
<1> HIDE DEF x
<1>3. /\ e \in Seq(Cxs) /\ IsInjective(e) /\ Range(e) = {} /\ g \in [Cxs -> CxType]
      /\ f \in [PxSides -> [CxLists -> Seq(Cxs)]]
      /\ (\A side \in PxSides, l \in CxLists : f[side][l] = e) /\ \A c \in Cxs : g[c] = x
  BY <1>2 DEF IsInjective, Range
<1> HIDE DEF e, f, g
<1>4. px \in PxType /\ px.list = f /\ px.trash = e /\ px.cx = g
  BY <1>1, <1>3 DEF PxType
<1>5. \A k \in Shelves : Shelf(px, k) = e
  <2> SUFFICES ASSUME NEW k \in Shelves PROVE Shelf(px, k) = e
    OBVIOUS
  <2>1. CASE k = Trash
    BY <1>4, <2>1, TrashIs
  <2>2. CASE \E side \in PxSides, l \in CxLists : k = <<side, l>>
    BY <1>3, <1>4, <2>2, ShelfIs
  <2> QED
    BY <2>1, <2>2, ShelfCases
<1>6. \A k \in Shelves : IsInjective(Shelf(px, k)) /\ OnShelf(px, k) = {}
  BY <1>3, <1>5 DEF OnShelf
<1>7. KeptOnce(px)
  <2>1. {c \in Cxs : px.cx[c].st = "live"} = {}
    BY <1>2, <1>3, <1>4
  <2> QED
    BY <1>6, <2>1 DEF KeptOnce
<1>8. \A side \in PxSides, l \in CxLists : Range(px.list[side][l]) = {}
  BY <1>3, <1>4
<1>9. AllAttended(px) /\ ShelvedRight(px)
  BY <1>6, <1>8, TrashIs DEF AllAttended, ShelvedRight, CxLists
<1>10. \A c \in Cxs : CxSound(px.cx[c])
  BY <1>2, <1>3, <1>4
<1> QED
  BY <1>4, <1>7, <1>9, <1>10 DEF PxSound, Sound

LEMMA PxNextSound ==
    ASSUME px \in Sound, [PxNext]_px
    PROVE  px' \in Sound
<1>1. CASE PxPass
  BY <1>1, PxPassSound
<1>2. CASE DestroyProxy
  BY <1>2, DestroyProxySound
<1>3. ASSUME NEW c \in Cxs, OpeningAges(c) \/ ReconnectAges(c) \/ IdleAges(c)
      PROVE  px' \in Sound
  BY <1>3, AgeingSound
<1>4. ASSUME NEW c \in Cxs, NEW side \in PxSides, ListenCx(side, c)
      PROVE  px' \in Sound
  <2>1. "bind" \in CxLists
    BY DEF CxLists
  <2> QED
    BY <1>4, <2>1, OwnerAddsSound DEF ListenCx
<1>5. ASSUME NEW c \in Cxs, NEW side \in PxSides, ConnectPermanent(side, c)
      PROVE  px' \in Sound
  BY <1>5, ConnectPermanentSound
<1>6. ASSUME NEW c \in Cxs, NEW side \in PxSides, NEW l \in {"sockets", "delayed"},
             AddByOwner(side, l, c)
      PROVE  px' \in Sound
  <2>1. l \in CxLists
    BY DEF CxLists
  <2> QED
    BY <1>6, <2>1, OwnerAddsSound DEF AddByOwner
<1>7. CASE UNCHANGED px
  BY <1>7
<1> QED
  BY <1>1, <1>2, <1>3, <1>4, <1>5, <1>6, <1>7 DEF PxNext

\* PxInv, the inductive invariant: in and after every pass of the proxy.
THEOREM ContextsInvariant == PxSpec => []PxInv
<1>1. PxInit => PxInv
  BY PxInitSound DEF PxInv, Sound
<1>2. PxInv /\ [PxNext]_px => PxInv'
  <2> SUFFICES ASSUME PxInv, [PxNext]_px PROVE PxInv'
    OBVIOUS
  <2>1. px \in Sound
    BY DEF PxInv, Sound, PxSound
  <2>2. px' \in Sound
    BY <2>1, PxNextSound
  <2> QED
    BY <2>2 DEF PxInv, Sound
<1> QED
  BY <1>1, <1>2, PTL DEF PxSpec

\* The proxy and its contexts keep their types.
THEOREM ContextsTyped == PxSpec => []PxTypeOK
<1>1. PxInv => PxTypeOK
  BY DEF PxInv, PxSound, PxTypeOK
<1> QED
  BY <1>1, ContextsInvariant, PTL

\* Every context that was made is kept once until it is freed, only those in a
\* list are watched, and only a permanent one leaves a descriptor behind.
THEOREM ContextsAreKept == PxSpec => []ContextsKept
<1>1. ASSUME PxInv PROVE ContextsKept
  <2>1. px \in Sound /\ KeptOnce(px) /\ ShelvedRight(px) /\ \A c \in Cxs : CxSound(px.cx[c])
    BY <1>1 DEF PxInv, PxSound, Sound
  <2>2. IsInjective(EveryCx(px)) /\ Range(EveryCx(px)) = OnShelf(px, Trash) \cup AllListed(px)
    <3> DEFINE all == CxsOf(px, "L") \o CxsOf(px, "R")
    <3>1. EveryCx(px) = px.trash \o all
      BY DEF EveryCx
    <3> HIDE DEF all
    <3>2. all = CxsOf(px, "L") \o CxsOf(px, "R")
      BY DEF all
    <3> QED
      BY <2>1, <3>1, <3>2, EachOnce
  <2>3. {c \in Cxs : px.cx[c].st = "live"} = Range(EveryCx(px))
    BY <2>1, <2>2, ListedIs DEF KeptOnce
  <2>4. Range(px.trash) = OnShelf(px, Trash)
    BY TrashIs DEF OnShelf
  <2> QED
    BY <2>1, <2>2, <2>3, <2>4 DEF ContextsKept, CxSound, ShelvedRight
<1> QED
  BY <1>1, ContextsInvariant, PTL

\* A permanent context never keeps a descriptor that nobody looks at.
THEOREM PermanentAreAttended == PxSpec => []PermanentAttended
<1>1. PxInv => PermanentAttended
  BY DEF PxInv, PxSound, PermanentAttended
<1> QED
  BY <1>1, ContextsInvariant, PTL

-----------------------------------------------------------------------------
(* AppFlow: the flow.                                                      *)

Flows == Seq(AppEntry)

LEMMA FlowBasics ==
    ASSUME NEW f \in Flows
    PROVE  /\ DOMAIN f = 1 .. Len(f) /\ Len(f) \in Nat
           /\ \A k \in DOMAIN f : f[k] \in AppEntry /\ f[k].side \in Sides
                                  /\ f[k].data \in Seq(1 .. MaxBytes)
                                  /\ DOMAIN f[k].data = 1 .. Len(f[k].data)
                                  /\ Range(f[k].data) \subseteq 1 .. MaxBytes
<1>1. DOMAIN f = 1 .. Len(f) /\ Len(f) \in Nat /\ \A k \in DOMAIN f : f[k] \in AppEntry
  BY DEF Flows
<1>2. ASSUME NEW e \in AppEntry PROVE e.side \in Sides /\ e.data \in Seq(1 .. MaxBytes)
  BY DEF AppEntry
<1>3. ASSUME NEW S, NEW d \in Seq(S) PROVE DOMAIN d = 1 .. Len(d) /\ Range(d) \subseteq S
  BY DEF Range
<1> QED
  BY <1>1, <1>2, <1>3

\* g is f with data of a side at its end: in its last entry or in a new one.
Extends(f, g, side, data) ==
    \/ /\ Len(f) > 0 /\ Len(g) = Len(f) /\ f[Len(f)].side = side /\ g[Len(f)].side = side
       /\ g[Len(f)].data = f[Len(f)].data \o data
       /\ \A k \in 1 .. Len(f) - 1 : g[k] = f[k]
    \/ /\ Len(g) = Len(f) + 1 /\ g[Len(g)].side = side /\ g[Len(g)].data = data
       /\ \A k \in 1 .. Len(f) : g[k] = f[k]

LEMMA FlowAppendIs ==
    ASSUME NEW a \in AppType, NEW side \in Sides, NEW data \in Seq(1 .. MaxBytes),
           NEW b, b = FlowAppend(a, side, data)
    PROVE  /\ b \in AppType /\ Extends(a.flow, b.flow, side, data)
           /\ b = [a EXCEPT !.flow = b.flow]
<1> DEFINE f == a.flow
           m == Len(f)
<1>0. f \in Flows
  BY DEF AppType, Flows
<1>1. m \in Nat /\ DOMAIN f = 1 .. m /\ \A k \in 1 .. m : f[k] \in AppEntry
  BY <1>0, FlowBasics
<1>2. CASE f # <<>> /\ Last(f).side = side
  <2>1. m > 0 /\ m \in 1 .. m
    BY <1>0, <1>1, <1>2 DEF Flows
  <2> DEFINE e == [f[m] EXCEPT !.data = f[m].data \o data]
             g == [f EXCEPT ![m] = e]
  <2>2. f[m].side = side /\ f[m] \in AppEntry
    BY <1>1, <1>2, <2>1 DEF Last
  <2>3. e \in AppEntry /\ e.side = side /\ e.data = f[m].data \o data
    <3>1. f[m].data \in Seq(1 .. MaxBytes)
      BY <2>2 DEF AppEntry
    <3>2. ASSUME NEW S, NEW u \in Seq(S), NEW v \in Seq(S) PROVE u \o v \in Seq(S)
      OBVIOUS
    <3> DEFINE d == f[m].data \o data
    <3>3. d \in Seq(1 .. MaxBytes)
      BY <3>1, <3>2
    <3> HIDE DEF d
    <3>4. [f[m] EXCEPT !.data = d] \in AppEntry /\ [f[m] EXCEPT !.data = d].side = side
          /\ [f[m] EXCEPT !.data = d].data = d
      BY <2>2, <3>3 DEF AppEntry
    <3> QED
      BY <3>4 DEF d
  <2>4. b = [a EXCEPT !.flow = g]
    BY <1>2 DEF FlowAppend
  <2> HIDE DEF e
  <2>5. g \in Flows /\ Len(g) = m /\ g[m] = e /\ \A k \in 1 .. m - 1 : g[k] = f[k]
    BY <1>0, <1>1, <2>1, <2>3 DEF Flows
  <2> HIDE DEF g
  <2>6. b \in AppType /\ b.flow = g
    BY <2>4, <2>5 DEF AppType, Flows
  <2> QED
    BY <2>1, <2>2, <2>3, <2>4, <2>5, <2>6 DEF Extends
<1>3. CASE ~(f # <<>> /\ Last(f).side = side)
  <2> DEFINE e == [side |-> side, data |-> data]
             g == Append(f, e)
  <2>1. e \in AppEntry /\ e.side = side /\ e.data = data
    BY DEF AppEntry
  <2>2. b = [a EXCEPT !.flow = g]
    BY <1>3 DEF FlowAppend
  <2> HIDE DEF e
  <2>3. g \in Flows /\ Len(g) = m + 1 /\ g[m + 1] = e /\ \A k \in 1 .. m : g[k] = f[k]
    BY <1>0, <2>1 DEF Flows
  <2> HIDE DEF g
  <2>4. b \in AppType /\ b.flow = g
    BY <2>2, <2>3 DEF AppType, Flows
  <2> QED
    BY <2>1, <2>2, <2>3, <2>4 DEF Extends
<1> QED
  BY <1>2, <1>3

\* Flows with the same entries of a side.
LEMMA SameSide ==
    ASSUME NEW f, NEW g, NEW t,
           \A k \in DOMAIN g : g[k].side = t => k \in DOMAIN f /\ g[k] = f[k],
           \A k \in DOMAIN f : f[k].side = t => k \in DOMAIN g /\ g[k] = f[k]
    PROVE  Copied(g, t) = Copied(f, t) /\ (InOrder(f, t) => InOrder(g, t))
<1>1. Copied(g, t) = Copied(f, t)
  BY DEF Copied
<1>2. InOrder(f, t) => InOrder(g, t)
  BY DEF InOrder
<1> QED
  BY <1>1, <1>2

\* Bytes of the other side stay as they are.
LEMMA ExtendsOther ==
    ASSUME NEW f \in Flows, NEW g \in Flows, NEW side \in Sides, NEW data \in Seq(1 .. MaxBytes),
           Extends(f, g, side, data), NEW t \in Sides, t # side
    PROVE  Copied(g, t) = Copied(f, t) /\ (InOrder(f, t) => InOrder(g, t))
<1>0. DOMAIN f = 1 .. Len(f) /\ Len(f) \in Nat /\ DOMAIN g = 1 .. Len(g) /\ Len(g) \in Nat
  BY FlowBasics
<1>a. CASE /\ Len(f) > 0 /\ Len(g) = Len(f) /\ f[Len(f)].side = side /\ g[Len(f)].side = side
           /\ \A k \in 1 .. Len(f) - 1 : g[k] = f[k]
  <2>0. \A n \in Nat : \A k \in 1 .. n : k \in 1 .. n - 1 \/ k = n
    OBVIOUS
  <2>1. \A k \in 1 .. Len(f) : k \in 1 .. Len(f) - 1 \/ k = Len(f)
    BY <1>0, <2>0
  <2> QED
    BY <1>0, <1>a, <2>1, SameSide
<1>b. CASE Len(g) = Len(f) + 1 /\ g[Len(g)].side = side /\ \A k \in 1 .. Len(f) : g[k] = f[k]
  <2>1. \A k \in 1 .. Len(f) + 1 : k \in 1 .. Len(f) \/ k = Len(f) + 1
    BY <1>0
  <2>2. \A k \in 1 .. Len(f) : k \in 1 .. Len(f) + 1
    BY <1>0
  <2> QED
    BY <1>0, <1>b, <2>1, <2>2, SameSide
<1> QED
  BY <1>a, <1>b DEF Extends
\* A byte of the extended side is an old one, at its old place, or one of data.
LEMMA ExtendsPlaces ==
    ASSUME NEW f \in Flows, NEW g \in Flows, NEW side \in Sides, NEW data \in Seq(1 .. MaxBytes),
           Extends(f, g, side, data), NEW k \in DOMAIN g, g[k].side = side, NEW i \in DOMAIN g[k].data
    PROVE  \/ k \in DOMAIN f /\ f[k].side = side /\ i \in DOMAIN f[k].data /\ g[k].data[i] = f[k].data[i]
           \/ /\ k = Len(g) /\ k = Len(f) /\ f[k].side = side /\ i > Len(f[k].data)
              /\ i - Len(f[k].data) \in DOMAIN data /\ g[k].data[i] = data[i - Len(f[k].data)]
           \/ k = Len(g) /\ k = Len(f) + 1 /\ i \in DOMAIN data /\ g[k].data[i] = data[i]
<1>0. /\ DOMAIN f = 1 .. Len(f) /\ Len(f) \in Nat /\ DOMAIN g = 1 .. Len(g) /\ Len(g) \in Nat
      /\ g[k].data \in Seq(1 .. MaxBytes) /\ DOMAIN data = 1 .. Len(data)
  BY FlowBasics
<1>1. CASE /\ Len(f) > 0 /\ Len(g) = Len(f) /\ f[Len(f)].side = side
           /\ g[Len(f)].data = f[Len(f)].data \o data
           /\ \A j \in 1 .. Len(f) - 1 : g[j] = f[j]
  <2>1. CASE k = Len(f)
    <3> DEFINE d == f[k].data
    <3>1. d \in Seq(1 .. MaxBytes) /\ DOMAIN d = 1 .. Len(d) /\ g[k].data = d \o data /\ f[k].side = side
          /\ k \in DOMAIN f
      BY <1>0, <1>1, <2>1, FlowBasics
    <3> HIDE DEF d
    <3>2. Len(d) \in Nat /\ Len(data) \in Nat /\ i \in 1 .. Len(d) + Len(data)
      BY <3>1
    <3>3. (d \o data)[i] = IF i <= Len(d) THEN d[i] ELSE data[i - Len(d)]
      BY <3>1, <3>2
    <3>4. i \in 1 .. Len(d) \/ (i > Len(d) /\ i - Len(d) \in 1 .. Len(data))
      BY <3>2
    <3>5. CASE i \in 1 .. Len(d)
      <4>1. k \in DOMAIN f /\ f[k].side = side /\ i \in DOMAIN d /\ g[k].data[i] = d[i]
        BY <3>1, <3>2, <3>3, <3>5
      <4> QED
        BY <4>1 DEF d
    <3>6. CASE i > Len(d) /\ i - Len(d) \in 1 .. Len(data)
      <4>1. /\ k = Len(g) /\ k = Len(f) /\ f[k].side = side /\ i > Len(d)
            /\ i - Len(d) \in DOMAIN data /\ g[k].data[i] = data[i - Len(d)]
        BY <1>0, <1>1, <2>1, <3>1, <3>2, <3>3, <3>6
      <4> QED
        BY <4>1 DEF d
    <3> QED
      BY <3>4, <3>5, <3>6
  <2>2. CASE k # Len(f)
    <3>1. k \in 1 .. Len(f) - 1 /\ k \in DOMAIN f
      BY <1>0, <1>1, <2>2
    <3> QED
      BY <1>1, <3>1
  <2> QED
    BY <2>1, <2>2
<1>2. CASE /\ Len(g) = Len(f) + 1 /\ g[Len(g)].data = data
           /\ \A j \in 1 .. Len(f) : g[j] = f[j]
  <2>1. k \in 1 .. Len(f) \/ k = Len(f) + 1
    BY <1>0, <1>2
  <2> QED
    BY <1>0, <1>2, <2>1
<1> QED
  BY <1>1, <1>2 DEF Extends

\* Old bytes stay at their places, and data come after them.
LEMMA ExtendsKeeps ==
    ASSUME NEW f \in Flows, NEW g \in Flows, NEW side \in Sides, NEW data \in Seq(1 .. MaxBytes),
           Extends(f, g, side, data)
    PROVE  /\ \A k \in DOMAIN f : f[k].side = side =>
                 k \in DOMAIN g /\ g[k].side = side /\ Range(f[k].data) \subseteq Range(g[k].data)
           /\ g # <<>> /\ Len(g) \in DOMAIN g /\ g[Len(g)].side = side
           /\ Range(data) \subseteq Range(g[Len(g)].data)
<1>0. DOMAIN f = 1 .. Len(f) /\ Len(f) \in Nat /\ DOMAIN g = 1 .. Len(g) /\ Len(g) \in Nat
  BY FlowBasics
<1>1. ASSUME NEW S, NEW u \in Seq(S), NEW v \in Seq(S)
      PROVE  Range(u) \subseteq Range(u \o v) /\ Range(v) \subseteq Range(u \o v)
  <2>1. /\ Len(u) \in Nat /\ Len(v) \in Nat /\ DOMAIN u = 1 .. Len(u) /\ DOMAIN v = 1 .. Len(v)
        /\ DOMAIN (u \o v) = 1 .. Len(u) + Len(v)
        /\ \A i \in 1 .. Len(u) + Len(v) : (u \o v)[i] = IF i <= Len(u) THEN u[i] ELSE v[i - Len(u)]
    OBVIOUS
  <2> DEFINE w == u \o v
  <2> HIDE DEF w
  <2>2. \A i \in 1 .. Len(u) : i \in 1 .. Len(u) + Len(v) /\ w[i] = u[i]
    BY <2>1 DEF w
  <2>3. \A i \in 1 .. Len(v) : i + Len(u) \in 1 .. Len(u) + Len(v) /\ w[i + Len(u)] = v[i]
    BY <2>1 DEF w
  <2>4. DOMAIN w = 1 .. Len(u) + Len(v)
    BY <2>1 DEF w
  <2>a. ASSUME NEW x \in Range(u) PROVE x \in Range(w)
    <3>1. PICK i \in 1 .. Len(u) : x = u[i]
      BY <2>1 DEF Range
    <3>2. i \in DOMAIN w /\ w[i] = x
      BY <2>2, <2>4, <3>1
    <3> QED
      BY <3>2 DEF Range
  <2>b. ASSUME NEW x \in Range(v) PROVE x \in Range(w)
    <3>1. PICK i \in 1 .. Len(v) : x = v[i]
      BY <2>1 DEF Range
    <3>2. i + Len(u) \in DOMAIN w /\ w[i + Len(u)] = x
      BY <2>3, <2>4, <3>1
    <3> QED
      BY <3>2 DEF Range
  <2>5. Range(u) \subseteq Range(w) /\ Range(v) \subseteq Range(w)
    BY <2>a, <2>b
  <2> QED
    BY <2>5 DEF w
<1>2. \A k \in DOMAIN f : f[k].data \in Seq(1 .. MaxBytes)
  BY FlowBasics
<1>3. \A n \in Nat : \A k \in 1 .. n : k \in 1 .. n - 1 \/ k = n
  OBVIOUS
<1>4. CASE /\ Len(f) > 0 /\ Len(g) = Len(f) /\ f[Len(f)].side = side /\ g[Len(f)].side = side
           /\ g[Len(f)].data = f[Len(f)].data \o data
           /\ \A k \in 1 .. Len(f) - 1 : g[k] = f[k]
  <2>1. Len(f) \in DOMAIN f /\ Len(g) \in DOMAIN g /\ g # <<>>
    BY <1>0, <1>4 DEF Flows
  <2>2. /\ Range(f[Len(f)].data) \subseteq Range(g[Len(f)].data)
        /\ Range(data) \subseteq Range(g[Len(g)].data)
    BY <1>1, <1>2, <1>4, <2>1
  <2> QED
    BY <1>0, <1>3, <1>4, <2>1, <2>2
<1>5. CASE /\ Len(g) = Len(f) + 1 /\ g[Len(g)].side = side /\ g[Len(g)].data = data
           /\ \A k \in 1 .. Len(f) : g[k] = f[k]
  <2>1. Len(g) \in DOMAIN g /\ g # <<>> /\ \A k \in 1 .. Len(f) : k \in 1 .. Len(f) + 1
    BY <1>0, <1>5 DEF Flows
  <2> QED
    BY <1>0, <1>5, <2>1
<1> QED
  BY <1>4, <1>5 DEF Extends

Increasing(data) == \A i, j \in DOMAIN data : i < j => data[i] < data[j]

LEMMA ExtendsSame ==
    ASSUME NEW f \in Flows, NEW g \in Flows, NEW side \in Sides, NEW data \in Seq(1 .. MaxBytes),
           Extends(f, g, side, data)
    PROVE  /\ Copied(g, side) = Copied(f, side) \cup Range(data)
           /\ (/\ InOrder(f, side) /\ Increasing(data)
               /\ \A b \in Copied(f, side), d \in Range(data) : b < d) => InOrder(g, side)
<1>0. /\ DOMAIN f = 1 .. Len(f) /\ Len(f) \in Nat /\ DOMAIN g = 1 .. Len(g) /\ Len(g) \in Nat
      /\ DOMAIN data = 1 .. Len(data) /\ Len(data) \in Nat
  BY FlowBasics
<1>1. /\ \A k \in DOMAIN f : Range(f[k].data) \subseteq 1 .. MaxBytes
      /\ \A k \in DOMAIN g : Range(g[k].data) \subseteq 1 .. MaxBytes
  BY FlowBasics
<1>2. Copied(f, side) \cup Range(data) \subseteq Copied(g, side)
  BY <1>1, ExtendsKeeps DEF Copied
<1>3. Copied(g, side) \subseteq Copied(f, side) \cup Range(data)
  <2> SUFFICES ASSUME NEW b \in Copied(g, side) PROVE b \in Copied(f, side) \/ b \in Range(data)
    OBVIOUS
  <2>1. PICK k \in DOMAIN g : g[k].side = side /\ b \in Range(g[k].data)
    BY DEF Copied
  <2>2. PICK i \in DOMAIN g[k].data : b = g[k].data[i]
    BY <2>1 DEF Range
  <2>3. \/ k \in DOMAIN f /\ f[k].side = side /\ i \in DOMAIN f[k].data /\ g[k].data[i] = f[k].data[i]
        \/ \E j \in DOMAIN data : g[k].data[i] = data[j]
    BY <2>1, ExtendsPlaces
  <2>4. CASE k \in DOMAIN f /\ f[k].side = side /\ i \in DOMAIN f[k].data /\ g[k].data[i] = f[k].data[i]
    <3>1. b \in Range(f[k].data)
      BY <2>2, <2>4 DEF Range
    <3> QED
      BY <1>1, <2>4, <3>1 DEF Copied
  <2>5. CASE \E j \in DOMAIN data : g[k].data[i] = data[j]
    BY <2>2, <2>5 DEF Range
  <2> QED
    BY <2>3, <2>4, <2>5
<1>4. ASSUME InOrder(f, side), Increasing(data),
             \A b \in Copied(f, side), d \in Range(data) : b < d
      PROVE  InOrder(g, side)
  <2> SUFFICES ASSUME NEW k \in DOMAIN g, NEW l \in DOMAIN g, g[k].side = side, g[l].side = side,
                      NEW i \in DOMAIN g[k].data, NEW j \in DOMAIN g[l].data,
                      k < l \/ (k = l /\ i < j)
               PROVE  g[k].data[i] < g[l].data[j]
    BY DEF InOrder
  <2> DEFINE Old(m, n) == m \in DOMAIN f /\ f[m].side = side /\ n \in DOMAIN f[m].data
                          /\ g[m].data[n] = f[m].data[n]
             Ext(m, n) == m = Len(g) /\ m = Len(f) /\ f[m].side = side /\ n > Len(f[m].data)
                          /\ n - Len(f[m].data) \in DOMAIN data
                          /\ g[m].data[n] = data[n - Len(f[m].data)]
             New(m, n) == m = Len(g) /\ m = Len(f) + 1 /\ n \in DOMAIN data
                          /\ g[m].data[n] = data[n]
  <2>1. Old(k, i) \/ Ext(k, i) \/ New(k, i)
    BY ExtendsPlaces
  <2>2. Old(l, j) \/ Ext(l, j) \/ New(l, j)
    BY ExtendsPlaces
  <2>3. /\ DOMAIN g[k].data = 1 .. Len(g[k].data) /\ DOMAIN g[l].data = 1 .. Len(g[l].data)
        /\ Len(g[k].data) \in Nat /\ Len(g[l].data) \in Nat
    <3>1. g[k].data \in Seq(1 .. MaxBytes) /\ g[l].data \in Seq(1 .. MaxBytes)
      BY FlowBasics
    <3> QED
      BY <3>1
  <2>4. CASE Old(k, i) /\ Old(l, j)
    BY <1>4, <2>4 DEF InOrder
  <2>5. CASE Old(k, i) /\ (Ext(l, j) \/ New(l, j))
    <3>1. g[k].data[i] \in Copied(f, side)
      <4>1. g[k].data[i] \in Range(f[k].data)
        BY <2>5 DEF Range
      <4> QED
        BY <1>1, <2>5, <4>1 DEF Copied
    <3>2. g[l].data[j] \in Range(data)
      BY <2>5 DEF Range
    <3> QED
      BY <1>4, <3>1, <3>2
  <2>6. CASE Ext(k, i) /\ Old(l, j)
    <3>1. k = l /\ i < j
      BY <1>0, <2>6
    <3>2. DOMAIN f[l].data = 1 .. Len(f[l].data) /\ Len(f[l].data) \in Nat
      <4>1. f[l].data \in Seq(1 .. MaxBytes)
        BY <2>6, FlowBasics
      <4> QED
        BY <4>1
    <3> QED
      BY <2>3, <2>6, <3>1, <3>2
  <2>7. CASE New(k, i) /\ Old(l, j)
    BY <1>0, <2>7
  <2>8. CASE Ext(k, i) /\ Ext(l, j)
    <3>1. k = l /\ i < j
      BY <1>0, <2>8
    <3> DEFINE n == Len(f[k].data)
    <3>2. n \in Nat
      <4>1. f[k].data \in Seq(1 .. MaxBytes)
        BY <1>0, <2>8, FlowBasics
      <4> QED
        BY <4>1
    <3>3. /\ i - n \in DOMAIN data /\ j - n \in DOMAIN data /\ i \in Nat /\ j \in Nat
          /\ g[k].data[i] = data[i - n] /\ g[l].data[j] = data[j - n]
      BY <2>3, <2>8, <3>1
    <3> HIDE DEF n
    <3>4. i - n < j - n
      BY <3>1, <3>2, <3>3
    <3> QED
      BY <1>4, <3>3, <3>4 DEF Increasing
  <2>9. CASE New(k, i) /\ New(l, j)
    <3>1. k = l /\ i < j
      BY <1>0, <2>9
    <3> QED
      BY <1>4, <2>9, <3>1 DEF Increasing
  <2>10. ~(Ext(k, i) /\ New(l, j)) /\ ~(New(k, i) /\ Ext(l, j))
    BY <1>0
  <2> HIDE DEF Old, Ext, New
  <2> QED
    BY <2>1, <2>2, <2>4, <2>5, <2>6, <2>7, <2>8, <2>9, <2>10
<1> QED
  BY <1>2, <1>3, <1>4

\* The bytes from one position to another.
LEMMA BytesIs ==
    ASSUME NEW from \in Nat, NEW to \in 0 .. MaxBytes, from <= to, MaxBytes \in Nat
    PROVE  /\ Bytes(from, to) \in Seq(1 .. MaxBytes) /\ Len(Bytes(from, to)) = to - from
           /\ Range(Bytes(from, to)) = from + 1 .. to /\ Increasing(Bytes(from, to))
<1> DEFINE d == Bytes(from, to)
           n == to - from
<1>1. n \in Nat /\ d = [i \in 1 .. n |-> from + i]
  BY DEF Bytes
<1>2. \A i \in 1 .. n : from + i \in 1 .. MaxBytes
  BY <1>1
<1> HIDE DEF d
<1>3. d \in Seq(1 .. MaxBytes) /\ Len(d) = n /\ DOMAIN d = 1 .. n
  BY <1>1, <1>2
<1>4. Increasing(d)
  BY <1>1, <1>3 DEF Increasing
<1>5. Range(d) = from + 1 .. to
  <2>1. \A b \in from + 1 .. to : b - from \in 1 .. n /\ d[b - from] = b
    BY <1>1
  <2>2. \A i \in 1 .. n : d[i] \in from + 1 .. to
    BY <1>1
  <2> QED
    BY <1>3, <2>1, <2>2 DEF Range
<1> QED
  BY <1>3, <1>4, <1>5 DEF d

\* Flow::pop, twice.
LEMMA PoppedFlow ==
    ASSUME NEW f \in Flows, Len(f) > 4, NEW g, g = SubSeq(f, 3, Len(f)), NEW t
    PROVE  g \in Flows /\ Copied(g, t) \subseteq Copied(f, t) /\ (InOrder(f, t) => InOrder(g, t))
<1>1. Len(f) \in Nat /\ DOMAIN f = 1 .. Len(f)
  BY FlowBasics
<1>2. g \in Flows /\ Len(g) = Len(f) - 2 /\ \A k \in 1 .. Len(f) - 2 : g[k] = f[k + 2]
  BY <1>1 DEF Flows
<1>3. \A k \in DOMAIN g : k + 2 \in DOMAIN f /\ g[k] = f[k + 2] /\ k \in Nat
  <2>1. DOMAIN g = 1 .. Len(f) - 2
    BY <1>2 DEF Flows
  <2> QED
    BY <1>1, <1>2, <2>1
<1>4. Copied(g, t) \subseteq Copied(f, t)
  BY <1>3 DEF Copied
<1>5. InOrder(f, t) => InOrder(g, t)
  <2> SUFFICES ASSUME InOrder(f, t), NEW k \in DOMAIN g, NEW l \in DOMAIN g, g[k].side = t, g[l].side = t,
                      NEW i \in DOMAIN g[k].data, NEW j \in DOMAIN g[l].data,
                      k < l \/ (k = l /\ i < j)
               PROVE  g[k].data[i] < g[l].data[j]
    BY DEF InOrder
  <2>1. /\ k + 2 \in DOMAIN f /\ l + 2 \in DOMAIN f /\ g[k] = f[k + 2] /\ g[l] = f[l + 2]
        /\ k + 2 < l + 2 \/ (k + 2 = l + 2 /\ i < j)
    BY <1>3
  <2> QED
    BY <2>1 DEF InOrder
<1> QED
  BY <1>2, <1>4, <1>5

-----------------------------------------------------------------------------
(* AppFlow: the search of a signature.                                     *)

\* Results for no more elements than the signature s has.
Partial(s) == {m \in MatchType : Len(m.at) <= Len(s)}

\* The elements found are found in order, in entries of their sides, and no later
\* than in the entry that was examined last.
Found(m, s, popped) ==
    /\ \A i, j \in DOMAIN m.at : i < j => m.at[i][1] <= m.at[j][1]
    /\ \A i \in DOMAIN m.at : m.at[i][2] = s[i].side /\ m.at[i][1] <= popped + m.ret

LEMMA MatchTypes ==
    ASSUME NEW m \in MatchType
    PROVE  /\ m.hit \in BOOLEAN /\ m.ret \in Nat /\ m.at \in Seq(Nat \X Sides)
           /\ Len(m.at) \in Nat /\ DOMAIN m.at = 1 .. Len(m.at)
           /\ \A i \in DOMAIN m.at : m.at[i][1] \in Nat /\ m.at[i][2] \in Sides
<1>1. m.hit \in BOOLEAN /\ m.ret \in Nat /\ m.at \in Seq(Nat \X Sides)
  BY DEF MatchType
<1>2. ASSUME NEW u \in Seq(Nat \X Sides)
      PROVE  /\ Len(u) \in Nat /\ DOMAIN u = 1 .. Len(u)
             /\ \A i \in DOMAIN u : u[i][1] \in Nat /\ u[i][2] \in Sides
  OBVIOUS
<1> QED
  BY <1>1, <1>2

LEMMA SignatureTypes ==
    ASSUME NEW s \in Signatures
    PROVE  /\ Len(s) \in Nat /\ DOMAIN s = 1 .. Len(s)
           /\ \A i \in 1 .. Len(s) : s[i].side \in Sides
<1>1. s \in Seq([side : Sides, byte : Nat])
  BY SignaturesAssumption DEF Sides
<1>2. ASSUME NEW S, NEW u \in Seq(S)
      PROVE  Len(u) \in Nat /\ DOMAIN u = 1 .. Len(u) /\ \A i \in 1 .. Len(u) : u[i] \in S
  OBVIOUS
<1>3. \A e \in [side : Sides, byte : Nat] : e.side \in Sides
  OBVIOUS
<1> QED
  BY <1>1, <1>2, <1>3

\* One entry.
LEMMA MatchEntryIs ==
    ASSUME NEW a \in AppType, NEW s \in Signatures, NEW k \in 1 .. Len(a.flow),
           NEW m \in Partial(s), NEW w, w = MatchEntry(a, s, m, k)
    PROVE  /\ w \in Partial(s) /\ w.hit = m.hit
           /\ Found(m, s, a.popped) /\ (Len(m.at) = Len(s) \/ m.ret = k \/ m.ret = k - 1)
              => Found(w, s, a.popped) /\ (Len(w.at) = Len(s) \/ w.ret = k)
<1> DEFINE el == s[Len(m.at) + 1]
           n == IF k = m.ret THEN m.ret ELSE m.ret + 1
           x == <<a.popped + k, el.side>>
           u == m.at
<1>0. m \in MatchType /\ Len(u) <= Len(s)
  BY DEF Partial
<1>1. /\ m.hit \in BOOLEAN /\ m.ret \in Nat /\ u \in Seq(Nat \X Sides) /\ Len(u) \in Nat
      /\ DOMAIN u = 1 .. Len(u) /\ \A i \in DOMAIN u : u[i][1] \in Nat /\ u[i][2] \in Sides
  BY <1>0, MatchTypes
<1>2. a.popped \in Nat /\ Len(a.flow) \in Nat /\ k \in Nat
  <2>1. a.flow \in Flows /\ a.popped \in Nat
    BY DEF AppType, Flows
  <2> QED
    BY <2>1, FlowBasics
<1>3. Len(s) \in Nat /\ \A i \in 1 .. Len(s) : s[i].side \in Sides
  BY SignatureTypes
<1>4. CASE Len(u) = Len(s)
  BY <1>0, <1>4 DEF MatchEntry
<1>5. CASE Len(u) # Len(s) /\ a.flow[k].side = el.side /\ el.byte \in Range(a.flow[k].data)
  <2> DEFINE v == Append(u, x)
  <2>1. w = [m EXCEPT !.ret = n, !.at = v]
    BY <1>5 DEF MatchEntry
  <2>2. Len(u) + 1 \in 1 .. Len(s) /\ x \in Nat \X Sides /\ n \in Nat
    <3>1. Len(u) + 1 \in 1 .. Len(s) /\ n \in Nat
      BY <1>0, <1>1, <1>3, <1>5
    <3>2. el.side \in Sides /\ a.popped + k \in Nat
      BY <1>2, <1>3, <3>1
    <3> HIDE DEF el
    <3> QED
      BY <3>1, <3>2
  <2>x. x[1] = a.popped + k /\ x[2] = s[Len(u) + 1].side
    OBVIOUS
  <2> HIDE DEF x
  <2>3. /\ v \in Seq(Nat \X Sides) /\ Len(v) = Len(u) + 1 /\ DOMAIN v = 1 .. Len(u) + 1
        /\ v[Len(u) + 1] = x /\ \A i \in 1 .. Len(u) : v[i] = u[i]
    BY <1>1, <2>2
  <2> HIDE DEF v, u, n
  <2>4. w \in MatchType /\ w.hit = m.hit /\ w.ret = n /\ w.at = v
    BY <1>0, <2>1, <2>2, <2>3 DEF MatchType
  <2>5. w \in Partial(s)
    BY <1>1, <1>3, <2>2, <2>3, <2>4 DEF Partial
  <2>6. ASSUME Found(m, s, a.popped), m.ret = k \/ m.ret = k - 1
        PROVE  Found(w, s, a.popped) /\ w.ret = k
    <3>1. w.ret = k /\ m.ret <= k
      BY <1>1, <1>2, <2>4, <2>6 DEF n
    <3>2. \A i \in 1 .. Len(u) : u[i][2] = s[i].side /\ u[i][1] <= a.popped + k /\ u[i][1] \in Nat
      <4>1. \A i \in 1 .. Len(u) : u[i][2] = s[i].side /\ u[i][1] <= a.popped + m.ret /\ u[i][1] \in Nat
        BY <1>1, <2>6 DEF Found, u
      <4>2. \A y \in Nat : y <= a.popped + m.ret => y <= a.popped + k
        BY <1>1, <1>2, <3>1
      <4> QED
        BY <4>1, <4>2
    <3>3. \A i, j \in 1 .. Len(u) : i < j => u[i][1] <= u[j][1]
      BY <1>1, <2>6 DEF Found, u
    <3>4. \A i \in 1 .. Len(u) + 1 : i \in 1 .. Len(u) \/ i = Len(u) + 1
      BY <1>1
    <3>5. \A i \in 1 .. Len(u) + 1 : v[i][2] = s[i].side /\ v[i][1] <= a.popped + k
      <4>1. \A i \in 1 .. Len(u) : v[i][2] = s[i].side /\ v[i][1] <= a.popped + k
        BY <2>3, <3>2
      <4>2. v[Len(u) + 1][2] = s[Len(u) + 1].side /\ v[Len(u) + 1][1] <= a.popped + k
        BY <1>2, <2>3, <2>x
      <4> QED
        BY <3>4, <4>1, <4>2
    <3>6. ASSUME NEW i \in 1 .. Len(u) + 1, NEW j \in 1 .. Len(u) + 1, i < j
          PROVE  v[i][1] <= v[j][1]
      <4>1. i \in 1 .. Len(u)
        BY <1>1, <3>6
      <4>2. CASE j \in 1 .. Len(u)
        BY <2>3, <3>3, <3>6, <4>1, <4>2
      <4>3. CASE j = Len(u) + 1
        BY <2>3, <2>x, <3>2, <4>1, <4>3
      <4> QED
        BY <3>4, <4>2, <4>3
    <3> QED
      BY <2>3, <2>4, <3>1, <3>5, <3>6 DEF Found
  <2> QED
    BY <1>5, <2>4, <2>5, <2>6 DEF u
<1>6. CASE Len(u) # Len(s) /\ ~(a.flow[k].side = el.side /\ el.byte \in Range(a.flow[k].data))
  <2>1. w = [m EXCEPT !.ret = n] /\ n \in Nat
    BY <1>1, <1>6 DEF MatchEntry
  <2> HIDE DEF n
  <2>2. w \in MatchType /\ w.hit = m.hit /\ w.ret = n /\ w.at = u
    BY <1>0, <2>1 DEF MatchType
  <2>3. w \in Partial(s)
    BY <1>0, <2>2 DEF Partial
  <2>4. ASSUME Found(m, s, a.popped), m.ret = k \/ m.ret = k - 1
        PROVE  Found(w, s, a.popped) /\ w.ret = k
    <3>1. w.ret = k /\ m.ret <= k
      BY <1>1, <1>2, <2>2, <2>4 DEF n
    <3>2. \A i \in DOMAIN u : u[i][1] <= a.popped + k
      BY <1>1, <1>2, <2>4, <3>1 DEF Found
    <3> QED
      BY <2>2, <2>4, <3>1, <3>2 DEF Found
  <2> QED
    BY <1>6, <2>2, <2>3, <2>4
<1> QED
  BY <1>4, <1>5, <1>6

\* All entries from the one that was examined last.
LEMMA MatchUpdateIs ==
    ASSUME NEW a \in AppType, NEW s \in Signatures, NEW m \in Partial(s), m = a.match[s],
           Found(m, s, a.popped)
    PROVE  /\ MatchUpdate(a, s) \in Partial(s) /\ MatchUpdate(a, s).hit = m.hit
           /\ Found(MatchUpdate(a, s), s, a.popped)
<1> DEFINE L == Len(a.flow)
           first == IF m.ret = 0 THEN 1 ELSE m.ret
           n == IF first <= L THEN L + 1 - first ELSE 0
           K(i) == first + i - 1
           G(i, w) == MatchEntry(a, s, w, K(i))
           T == Partial(s)
           F == [x \in (1 .. n) \X T |-> G(x[1], x[2])]
<1>0. /\ L \in Nat /\ first \in Nat \ {0} /\ m.ret \in Nat /\ n \in Nat
      /\ \A i \in 1 .. n : first + i - 1 \in 1 .. L
  <2>1. a.flow \in Flows /\ m \in MatchType
    BY DEF AppType, Flows, Partial
  <2>2. L \in Nat /\ m.ret \in Nat
    BY <2>1, FlowBasics, MatchTypes
  <2> HIDE DEF L
  <2> QED
    BY <2>2
<1>f. first = m.ret \/ (first = 1 /\ m.ret = 0)
  BY DEF first
<1>k. \A i \in 1 .. n : K(i) \in 1 .. L
  BY <1>0
<1>7. MatchUpdate(a, s) = (CHOOSE h : h = [i \in 0 .. n |-> IF i = 0 THEN m ELSE G(i, h[i - 1])])[n]
  BY DEF MatchUpdate
<1> HIDE DEF K, n, L
<1>1. ASSUME NEW i \in 1 .. n, NEW w \in T
      PROVE  /\ G(i, w) \in T /\ G(i, w).hit = w.hit
             /\ Found(w, s, a.popped) /\ (Len(w.at) = Len(s) \/ w.ret = K(i) \/ w.ret = K(i) - 1)
                => Found(G(i, w), s, a.popped) /\ (Len(G(i, w).at) = Len(s) \/ G(i, w).ret = K(i))
  <2>1. K(i) \in 1 .. Len(a.flow)
    BY <1>k DEF L
  <2> QED
    BY <2>1, MatchEntryIs
<1>2. F \in StepFcns(T, n)
  BY <1>1 DEF StepFcns
<1>3. \A i \in 1 .. n, w \in T : F[<<i, w>>] = G(i, w)
  OBVIOUS
<1> HIDE DEF F, G, T
<1>4. PICK g \in [0 .. n -> T] : g[0] = m /\ \A i \in 1 .. n : g[i] = F[<<i, g[i - 1]>>]
  <2>1. m \in T
    BY DEF T
  <2>2. Traces(T, n, m, F) # {}
    BY <1>0, <1>2, <2>1, Run
  <2> QED
    BY <2>2 DEF Traces
<1>5. \A i \in 1 .. n : g[i] = G(i, g[i - 1])
  <2>1. \A i \in 1 .. n : g[i - 1] \in T
    BY <1>0, <1>4
  <2> QED
    BY <1>3, <1>4, <2>1
<1> DEFINE Is(h) == h = [i \in 0 .. n |-> IF i = 0 THEN m ELSE G(i, h[i - 1])]
<1>6. Is(g)
  <2>1. \A i \in 0 .. n : i = 0 \/ i \in 1 .. n
    BY <1>0
  <2>2. \A i \in 0 .. n : g[i] = IF i = 0 THEN m ELSE G(i, g[i - 1])
    BY <1>4, <1>5, <2>1
  <2> QED
    BY <1>4, <2>2
<1> DEFINE h == CHOOSE f : Is(f)
<1>8. Is(h)
  BY <1>6, Zenon
<1>8a. MatchUpdate(a, s) = h[n]
  BY <1>7
<1> HIDE DEF h
<1>9. h = [i \in 0 .. n |-> IF i = 0 THEN m ELSE G(i, h[i - 1])]
  BY <1>8
<1>10. h[0] = m /\ \A i \in 1 .. n : h[i] = G(i, h[i - 1])
  <2>1. 0 \in 0 .. n /\ \A i \in 1 .. n : i \in 0 .. n /\ i # 0
    BY <1>0
  <2>2. \A i \in 0 .. n : h[i] = IF i = 0 THEN m ELSE G(i, h[i - 1])
    BY <1>9, Zenon
  <2> QED
    BY <2>1, <2>2
<1> HIDE DEF Is, first, L
\* After each entry: all elements are found, or the entry is the last one examined.
<1> DEFINE Fine(i) == /\ h[i] \in T /\ h[i].hit = m.hit /\ Found(h[i], s, a.popped)
                      /\ Len(h[i].at) = Len(s) \/ h[i].ret = K(i) \/ h[i].ret = K(i) + 1
           H == {i \in Nat : i \in 0 .. n => Fine(i)}
<1>11. 0 \in H
  BY <1>0, <1>f, <1>10 DEF T, K
<1>12. ASSUME NEW i \in 1 .. n, i - 1 \in H PROVE i \in H
  <2>1. i - 1 \in 0 .. n /\ Fine(i - 1) /\ i \in Nat
    BY <1>0, <1>12
  <2>2. h[i - 1] \in T /\ h[i] = G(i, h[i - 1])
    BY <1>10, <2>1
  <2>3. Len(h[i - 1].at) = Len(s) \/ h[i - 1].ret = K(i) \/ h[i - 1].ret = K(i) - 1
    BY <1>0, <2>1 DEF K
  <2>4. Fine(i)
    BY <1>1, <2>1, <2>2, <2>3
  <2> QED
    BY <2>1, <2>4
<1>13. Fine(n)
  <2>1. H \in SUBSET Nat
    OBVIOUS
  <2> HIDE DEF H
  <2>2. \A i \in 0 .. n : i \in H
    BY <1>0, <1>11, <1>12, <2>1, UpTo
  <2> QED
    BY <1>0, <2>2 DEF H
<1> QED
  BY <1>8a, <1>13 DEF T

AllSound(a) == \A s \in Signatures : MatchSound(a, s)

\* All but the results of the signatures is the same.
SameTraffic(a, b) ==
    /\ b.mode = a.mode /\ b.arrived = a.arrived /\ b.read = a.read /\ b.cap = a.cap
    /\ b.peekR = a.peekR /\ b.given = a.given /\ b.written = a.written /\ b.peekW = a.peekW
    /\ b.flow = a.flow /\ b.popped = a.popped /\ b.left = a.left /\ b.thrown = a.thrown

\* What a sound result is.
LEMMA SoundMatch ==
    ASSUME NEW a \in AppType, NEW s \in Signatures
    PROVE  MatchSound(a, s) <=>
              /\ a.reports[s] <= 1 /\ (a.reports[s] = 1) = a.match[s].hit
              /\ a.match[s].hit => Len(a.match[s].at) = Len(s)
              /\ a.match[s] \in Partial(s) /\ Found(a.match[s], s, a.popped)
<1>1. a.match[s] \in MatchType
  BY DEF AppType
<1> QED
  BY <1>1 DEF MatchSound, HitsInOrder, Found, Partial

LEMMA DetectIs ==
    ASSUME NEW a \in AppType, AllSound(a), NEW b, b = Detect(a)
    PROVE  b \in AppType /\ AllSound(b) /\ SameTraffic(a, b)
<1> DEFINE open == {s \in Signatures : ~a.match[s].hit}
           new == [s \in Signatures |-> IF s \in open THEN MatchUpdate(a, s) ELSE a.match[s]]
           full == {s \in open : Len(new[s].at) = Len(s)}
           match == [s \in Signatures |-> [new[s] EXCEPT !.hit = @ \/ s \in full]]
           reports == [s \in Signatures |-> a.reports[s] + (IF s \in full THEN 1 ELSE 0)]
<1>1. b = [a EXCEPT !.match = match, !.reports = reports]
  BY DEF Detect
<1>2. ASSUME NEW s \in Signatures
      PROVE  /\ a.match[s].hit \in BOOLEAN /\ a.reports[s] \in Nat
             /\ a.reports[s] <= 1 /\ (a.reports[s] = 1) = a.match[s].hit
             /\ a.match[s].hit => Len(a.match[s].at) = Len(s)
             /\ a.match[s] \in Partial(s) /\ Found(a.match[s], s, a.popped)
  <2>1. a.match[s] \in MatchType /\ a.reports[s] \in Nat
    BY DEF AppType
  <2>2. a.match[s].hit \in BOOLEAN
    BY <2>1, MatchTypes
  <2>3. MatchSound(a, s)
    BY DEF AllSound
  <2> QED
    BY <2>1, <2>2, <2>3, SoundMatch
<1>3. ASSUME NEW s \in Signatures
      PROVE  /\ new[s] \in Partial(s) /\ Found(new[s], s, a.popped) /\ new[s].hit = a.match[s].hit
             /\ a.match[s].hit => Len(new[s].at) = Len(s)
  <2>1. CASE a.match[s].hit
    <3>1. new[s] = a.match[s]
      BY <2>1
    <3> QED
      BY <1>2, <3>1
  <2>2. CASE ~a.match[s].hit
    <3>1. new[s] = MatchUpdate(a, s)
      BY <2>2
    <3>2. a.match[s] \in Partial(s) /\ Found(a.match[s], s, a.popped)
      BY <1>2
    <3> HIDE DEF new
    <3> QED
      BY <2>2, <3>1, <3>2, MatchUpdateIs
  <2> QED
    BY <2>1, <2>2
<1> HIDE DEF new
<1>4. ASSUME NEW s \in Signatures
      PROVE  /\ match[s] \in Partial(s) /\ Found(match[s], s, a.popped)
             /\ reports[s] \in Nat /\ reports[s] <= 1 /\ (reports[s] = 1) = match[s].hit
             /\ match[s].hit => Len(match[s].at) = Len(s)
  <2> DEFINE m == new[s]
             w == match[s]
  <2>1. w = [m EXCEPT !.hit = @ \/ s \in full] /\ m \in MatchType
    BY <1>3 DEF Partial
  <2>2. m.hit = a.match[s].hit /\ m.hit \in BOOLEAN /\ m \in Partial(s) /\ Found(m, s, a.popped)
    BY <1>2, <1>3
  <2>3. s \in full <=> ~a.match[s].hit /\ Len(m.at) = Len(s)
    OBVIOUS
  <2>4. reports[s] = a.reports[s] + (IF s \in full THEN 1 ELSE 0)
    OBVIOUS
  <2> HIDE DEF m, w, full, match, reports
  <2>5. w \in MatchType /\ w.hit = (m.hit \/ s \in full) /\ w.at = m.at /\ w.ret = m.ret
    BY <2>1 DEF MatchType
  <2>6. w \in Partial(s) /\ Found(w, s, a.popped)
    BY <2>2, <2>5 DEF Partial, Found
  <2>7. w.hit => Len(w.at) = Len(s)
    BY <1>3, <2>2, <2>3, <2>5 DEF m
  <2>8. reports[s] \in Nat /\ reports[s] <= 1 /\ (reports[s] = 1) = w.hit
    <3>1. CASE s \in full
      BY <1>2, <2>2, <2>3, <2>4, <2>5, <3>1
    <3>2. CASE s \notin full
      BY <1>2, <2>2, <2>3, <2>4, <2>5, <3>2
    <3> QED
      BY <3>1, <3>2
  <2> QED
    BY <2>6, <2>7, <2>8 DEF w
<1>5. match \in [Signatures -> MatchType] /\ reports \in [Signatures -> Nat]
  BY <1>4 DEF Partial
<1> HIDE DEF match, reports
<1>6. b \in AppType /\ b.match = match /\ b.reports = reports
  BY <1>1, <1>5 DEF AppType
<1>7. SameTraffic(a, b)
  BY <1>1 DEF AppType, SameTraffic
<1>8. AllSound(b)
  <2>1. b.popped = a.popped
    BY <1>7 DEF SameTraffic
  <2> QED
    BY <1>4, <1>6, <2>1, SoundMatch DEF AllSound
<1> QED
  BY <1>6, <1>7, <1>8

\* The results are sound for any flow whose numbering has not gone back.
LEMMA SoundKept ==
    ASSUME NEW a \in AppType, NEW b \in AppType, AllSound(a), b.match = a.match,
           b.reports = a.reports, b.popped >= a.popped
    PROVE  AllSound(b)
<1>1. a.popped \in Nat /\ b.popped \in Nat /\ a.match \in [Signatures -> MatchType]
  BY DEF AppType
<1>2. ASSUME NEW s \in Signatures, Found(a.match[s], s, a.popped) PROVE Found(a.match[s], s, b.popped)
  <2> DEFINE m == a.match[s]
  <2>1. m.ret \in Nat /\ \A i \in DOMAIN m.at : m.at[i][1] \in Nat
    BY <1>1, MatchTypes
  <2>2. \A x \in Nat : x <= a.popped + m.ret => x <= b.popped + m.ret
    BY <1>1, <2>1
  <2> HIDE DEF m
  <2>3. Found(m, s, a.popped)
    BY <1>2 DEF m
  <2>4. Found(m, s, b.popped)
    BY <2>1, <2>2, <2>3 DEF Found
  <2> QED
    BY <2>4 DEF m
<1>3. \A s \in Signatures : MatchSound(a, s)
  BY DEF AllSound
<1> QED
  BY <1>2, <1>3, SoundMatch DEF AllSound

-----------------------------------------------------------------------------
(* AppFlow: the parts of a read and a write.                               *)

Healthy(a) == a \in AppType /\ AllSound(a) /\ FlowSound(a)

LEMMA AppFields ==
    ASSUME NEW a \in AppType
    PROVE  /\ a.mode \in Modes /\ a.arrived \in 0 .. MaxBytes /\ a.read \in 0 .. MaxBytes
           /\ a.cap \in Nat /\ a.peekR \in 0 .. MaxBytes /\ a.given \in 0 .. MaxBytes
           /\ a.written \in 0 .. MaxBytes /\ a.peekW \in 0 .. MaxBytes /\ a.flow \in Flows
           /\ a.popped \in Nat /\ a.left \in 0 .. ContinuousLeft /\ a.thrown \in BOOLEAN
           /\ MaxBytes \in Nat /\ ContinuousLeft \in Nat /\ BuffSize \in Nat /\ MaxDetect \in Nat
<1>1. /\ MaxBytes \in Nat /\ ContinuousLeft \in Nat /\ BuffSize \in Nat /\ MaxDetect \in Nat
  BY BytesAssumption
<1> QED
  BY <1>1 DEF AppType, Flows

LEMMA SameTrafficSound ==
    ASSUME NEW a, NEW b, FlowSound(a), SameTraffic(a, b) PROVE FlowSound(b)
<1>1. InsideDetectRanges(b) = InsideDetectRanges(a)
  BY DEF SameTraffic, InsideDetectRanges
<1> QED
  BY <1>1 DEF FlowSound, InspectedOnce, PeekedOnce, ReadOnlyCopied, SameTraffic

LEMMA DetectGood ==
    ASSUME NEW a, Healthy(a), NEW b, b = Detect(a)
    PROVE  Healthy(b) /\ SameTraffic(a, b)
BY DetectIs, SameTrafficSound DEF Healthy

\* The switch to continuous mode, for which it is enough that no write is missing
\* among copied ones.
LEMMA ToContinuous ==
    ASSUME NEW a \in AppType, AllSound(a), InOrder(a.flow, "w"),
           a.read <= a.arrived, a.written <= a.given, a.peekW <= a.given, a.cap >= BuffSize,
           \A x \in Copied(a.flow, "w") : x <= a.peekW,
           a.written <= a.peekW \/ a.peekW = 0, ~a.thrown,
           NEW b, b = [a EXCEPT !.mode = "CONTINUOUS", !.left = ContinuousLeft]
    PROVE  /\ Healthy(b) /\ b.mode = "CONTINUOUS" /\ ~b.thrown
           /\ b.given = a.given /\ b.written = a.written /\ b.peekW = a.peekW
<1>1. b \in AppType
  <2>1. ContinuousLeft \in 0 .. ContinuousLeft /\ "CONTINUOUS" \in Modes
    BY AppFields DEF Modes
  <2> QED
    BY <2>1 DEF AppType
<1>2. /\ b.mode = "CONTINUOUS" /\ b.arrived = a.arrived /\ b.read = a.read /\ b.cap = a.cap
      /\ b.peekR = a.peekR /\ b.given = a.given /\ b.written = a.written /\ b.peekW = a.peekW
      /\ b.flow = a.flow /\ b.popped = a.popped /\ b.match = a.match /\ b.reports = a.reports
      /\ b.thrown = a.thrown
  BY DEF AppType
<1>3. FlowSound(b)
  BY <1>2 DEF FlowSound, InspectedOnce
<1>4. AllSound(b)
  <2>1. b.popped >= a.popped
    BY <1>2, AppFields
  <2> QED
    BY <1>1, <1>2, <2>1, SoundKept
<1> QED
  BY <1>1, <1>2, <1>3, <1>4 DEF Healthy

\* Only the mode and what is left of it differ.
LEMMA OnContinue ==
    ASSUME NEW a, Healthy(a), a.mode \in {"PRE", "CONTINUOUS"}, ~a.thrown,
           NEW b, b = InsideDetectOnContinue(a)
    PROVE  /\ Healthy(b) /\ b.mode \in {"PRE", "CONTINUOUS"} /\ ~b.thrown
           /\ b.given = a.given /\ b.written = a.written /\ b.peekW = a.peekW
           /\ a.mode = "CONTINUOUS" => b.mode = "CONTINUOUS"
<1>1. CASE b = a
  BY <1>1
<1>2. CASE b = [a EXCEPT !.mode = "CONTINUOUS", !.left = ContinuousLeft]
  <2>1. /\ a \in AppType /\ AllSound(a) /\ InOrder(a.flow, "w")
        /\ a.read <= a.arrived /\ a.written <= a.given /\ a.peekW <= a.given /\ a.cap >= BuffSize
        /\ \A x \in Copied(a.flow, "w") : x <= a.peekW
        /\ a.written <= a.peekW \/ a.peekW = 0
    BY DEF Healthy, FlowSound, InspectedOnce, PeekedOnce
  <2> QED
    BY <1>2, <2>1, ToContinuous
<1> QED
  BY <1>1, <1>2 DEF InsideDetectOnContinue

\* Read data are appended after the read in continuous mode.
LEMMA AppendRead ==
    ASSUME NEW a, Healthy(a), a.mode = "CONTINUOUS", NEW data \in Seq(1 .. MaxBytes),
           NEW b, b = FlowAppend(a, "r", data)
    PROVE  Healthy(b) /\ b.mode = a.mode /\ b.thrown = a.thrown
<1>0. a \in AppType /\ AllSound(a) /\ FlowSound(a) /\ "r" \in Sides /\ "w" \in Sides
  BY DEF Healthy, Sides
<1>1. b \in AppType /\ Extends(a.flow, b.flow, "r", data) /\ b = [a EXCEPT !.flow = b.flow]
  BY <1>0, FlowAppendIs
<1>2. /\ b.mode = a.mode /\ b.arrived = a.arrived /\ b.read = a.read /\ b.cap = a.cap
      /\ b.peekR = a.peekR /\ b.given = a.given /\ b.written = a.written /\ b.peekW = a.peekW
      /\ b.popped = a.popped /\ b.match = a.match /\ b.reports = a.reports /\ b.thrown = a.thrown
  <2> DEFINE f == b.flow
  <2> HIDE DEF f
  <2>1. b = [a EXCEPT !.flow = f]
    BY <1>1 DEF f
  <2> QED
    BY <1>0, <2>1 DEF AppType
<1>3. a.flow \in Flows /\ b.flow \in Flows
  BY <1>0, <1>1, AppFields
<1>4. Copied(b.flow, "w") = Copied(a.flow, "w") /\ (InOrder(a.flow, "w") => InOrder(b.flow, "w"))
  BY <1>0, <1>1, <1>3, ExtendsOther
<1>5. FlowSound(b)
  BY <1>0, <1>2, <1>4 DEF FlowSound, InspectedOnce
<1>6. AllSound(b)
  BY <1>0, <1>1, <1>2, AppFields, SoundKept
<1> QED
  BY <1>1, <1>2, <1>5, <1>6 DEF Healthy

\* Dropping old entries, in continuous mode.
LEMMA KeeperGood ==
    ASSUME NEW a, Healthy(a), ~a.thrown, NEW n \in Nat, NEW b, b = ContinuousModeKeeper(a, n)
    PROVE  /\ Healthy(b) /\ b.mode \in {a.mode, "NONE"} /\ (a.mode = "PRE" => b.mode = "PRE")
           /\ b.given = a.given /\ b.written = a.written /\ b.peekW = a.peekW /\ ~b.thrown
<1>0. a \in AppType /\ AllSound(a) /\ FlowSound(a)
  BY DEF Healthy
<1>1. CASE a.mode # "CONTINUOUS"
  BY <1>1 DEF ContinuousModeKeeper
<1>2. CASE a.mode = "CONTINUOUS"
  <2> DEFINE p == IF Len(a.flow) > 4
                  THEN [a EXCEPT !.flow = SubSeq(@, 3, Len(@)), !.popped = @ + 2]
                  ELSE a
  <2>1. p \in AppType /\ p.mode = a.mode /\ p.arrived = a.arrived /\ p.read = a.read /\ p.cap = a.cap
        /\ p.peekR = a.peekR /\ p.given = a.given /\ p.written = a.written /\ p.peekW = a.peekW
        /\ p.popped >= a.popped /\ p.match = a.match /\ p.reports = a.reports /\ p.left = a.left
        /\ p.thrown = a.thrown
        /\ Copied(p.flow, "w") \subseteq Copied(a.flow, "w")
        /\ (InOrder(a.flow, "w") => InOrder(p.flow, "w"))
    <3>1. CASE Len(a.flow) > 4
      <4> DEFINE g == SubSeq(a.flow, 3, Len(a.flow))
                 o == a.popped + 2
      <4>0. p = [a EXCEPT !.flow = g, !.popped = o]
        BY <3>1
      <4>1. /\ g \in Flows /\ Copied(g, "w") \subseteq Copied(a.flow, "w")
            /\ (InOrder(a.flow, "w") => InOrder(g, "w"))
        <5>1. a.flow \in Flows
          BY <1>0, AppFields
        <5> QED
          BY <3>1, <5>1, PoppedFlow
      <4>2. o \in Nat /\ o >= a.popped
        BY <1>0, AppFields
      <4> HIDE DEF p, g, o
      <4>3. p \in AppType
        BY <1>0, <4>0, <4>1, <4>2 DEF AppType, Flows
      <4>4. /\ p.mode = a.mode /\ p.arrived = a.arrived /\ p.read = a.read /\ p.cap = a.cap
            /\ p.peekR = a.peekR /\ p.given = a.given /\ p.written = a.written /\ p.peekW = a.peekW
            /\ p.popped = o /\ p.flow = g
            /\ p.match = a.match /\ p.reports = a.reports /\ p.left = a.left /\ p.thrown = a.thrown
        BY <1>0, <4>0 DEF AppType
      <4> QED
        BY <4>1, <4>2, <4>3, <4>4
    <3>2. CASE ~(Len(a.flow) > 4)
      <4>1. p = a /\ a.popped \in Nat
        BY <1>0, <3>2, AppFields
      <4> HIDE DEF p
      <4> QED
        BY <1>0, <4>1
    <3> QED
      BY <3>1, <3>2
  <2>2. b = IF n > a.left THEN [p EXCEPT !.left = 0, !.mode = "NONE"] ELSE [p EXCEPT !.left = @ - n]
    BY <1>2 DEF ContinuousModeKeeper
  <2> HIDE DEF p
  <2> DEFINE l == IF n > a.left THEN 0 ELSE a.left - n
             m == IF n > a.left THEN "NONE" ELSE "CONTINUOUS"
  <2>3. l \in 0 .. ContinuousLeft /\ m \in {"NONE", "CONTINUOUS"}
    BY <1>0, AppFields
  <2>4. b = [p EXCEPT !.left = l, !.mode = m]
    <3>1. CASE n > a.left
      BY <2>2, <3>1
    <3>2. CASE ~(n > a.left)
      <4>1. b = [p EXCEPT !.left = p.left - n]
        BY <2>2, <3>2
      <4>2. [p EXCEPT !.left = l] = [p EXCEPT !.left = l, !.mode = "CONTINUOUS"]
        BY <1>2, <2>1 DEF AppType
      <4> QED
        BY <2>1, <3>2, <4>1, <4>2
    <3> QED
      BY <3>1, <3>2
  <2> HIDE DEF l, m
  <2>5. b \in AppType
    BY <2>1, <2>3, <2>4 DEF AppType, Modes
  <2>6. /\ b.mode = m /\ b.arrived = p.arrived /\ b.read = p.read /\ b.cap = p.cap
        /\ b.peekR = p.peekR /\ b.given = p.given /\ b.written = p.written /\ b.peekW = p.peekW
        /\ b.flow = p.flow /\ b.popped = p.popped /\ b.match = p.match /\ b.reports = p.reports
        /\ b.thrown = p.thrown
    BY <2>1, <2>4 DEF AppType
  <2>7. FlowSound(b)
    BY <1>0, <1>2, <2>1, <2>3, <2>6 DEF FlowSound, InspectedOnce
  <2>8. AllSound(b)
    BY <1>0, <2>1, <2>5, <2>6, SoundKept
  <2> QED
    BY <1>2, <2>1, <2>3, <2>5, <2>6, <2>7, <2>8 DEF Healthy
<1> QED
  BY <1>1, <1>2

\* Reading: what pre_read has peeked is no less than what it is to read.
Peeked(a) ==
    /\ a \in AppType /\ AllSound(a) /\ InspectedOnce(a)
    /\ a.read <= a.arrived /\ a.written <= a.given /\ a.peekW <= a.given /\ a.cap >= BuffSize
    /\ \A b \in Copied(a.flow, "w") : b <= a.peekW
    /\ a.mode = "POST" => a.peekW = 0
    /\ a.mode = "PRE" => a.peekR <= a.arrived /\ (a.read < MaxDetect => a.peekR = a.arrived)

\* pre_read never throws, since what is read below max_detect_bytes was peeked; it leaves the
\* counters of the traffic alone.
LEMMA PreReadGood ==
    ASSUME NEW a, Healthy(a), a.arrived > a.read, ~a.thrown, NEW p, p = PreRead(a)
    PROVE  /\ Peeked(p) /\ ~p.thrown /\ p.arrived = a.arrived /\ p.read = a.read
<1>0. /\ a \in AppType /\ AllSound(a) /\ FlowSound(a) /\ InspectedOnce(a)
      /\ "r" \in Sides /\ "w" \in Sides
  BY DEF Healthy, FlowSound, Sides
<1>1. /\ a.arrived \in 0 .. MaxBytes /\ a.read \in 0 .. MaxBytes /\ a.peekR \in 0 .. MaxBytes
      /\ a.written \in 0 .. MaxBytes /\ MaxDetect \in Nat /\ a.flow \in Flows /\ MaxBytes \in Nat
      /\ a.popped \in Nat
  BY <1>0, AppFields
<1>2. CASE a.mode # "PRE"
  <2>1. p = a
    BY <1>2 DEF PreRead
  <2> QED
    BY <1>0, <1>2, <2>1 DEF Peeked, FlowSound
<1>3. CASE a.mode = "PRE"
  <2>1. ~(InsideDetectRanges(a) /\ a.peekR < a.read)
    BY <1>0, <1>1, <1>3 DEF InsideDetectRanges, FlowSound, InspectedOnce, PeekedOnce
  <2>2. CASE a.read >= MaxDetect
    <3>1. p = a
      BY <1>3, <2>1, <2>2 DEF PreRead
    <3>2. ~(a.read < MaxDetect)
      BY <1>1, <2>2
    <3> QED
      BY <1>0, <1>3, <3>1, <3>2 DEF Peeked, FlowSound
  <2>3. CASE a.read < MaxDetect
    <3> DEFINE n == a.arrived - a.read
               c == [a EXCEPT !.peekR = a.arrived]
               data == Bytes(a.read, a.arrived)
               g == FlowAppend(c, "r", data)
    <3>1. a.peekR = a.read /\ a.read <= a.arrived /\ a.read \in Nat
      BY <1>0, <1>1, <1>3, <2>3 DEF FlowSound
    <3>2. a.peekR + n = a.arrived /\ n # 0 /\ ~(a.read >= MaxDetect)
      BY <1>1, <2>3, <3>1
    <3>3. p = Detect(g)
      BY <1>3, <2>1, <3>2 DEF PreRead
    <3>4. data \in Seq(1 .. MaxBytes) /\ Range(data) = a.read + 1 .. a.arrived /\ Increasing(data)
      BY <1>1, <3>1, BytesIs
    <3> HIDE DEF data
    <3>5. /\ c \in AppType /\ c.peekR = a.arrived
          /\ c.mode = a.mode /\ c.arrived = a.arrived /\ c.read = a.read /\ c.cap = a.cap
          /\ c.given = a.given /\ c.written = a.written /\ c.peekW = a.peekW /\ c.thrown = a.thrown
          /\ c.flow = a.flow /\ c.popped = a.popped /\ c.match = a.match /\ c.reports = a.reports
      BY <1>0, <1>1 DEF AppType
    <3> HIDE DEF c
    <3>6. g \in AppType /\ Extends(c.flow, g.flow, "r", data) /\ g = [c EXCEPT !.flow = g.flow]
      BY <1>0, <3>4, <3>5, FlowAppendIs
    <3> HIDE DEF g
    <3>7. /\ g.peekR = a.arrived
          /\ g.mode = a.mode /\ g.arrived = a.arrived /\ g.read = a.read /\ g.cap = a.cap
          /\ g.given = a.given /\ g.written = a.written /\ g.peekW = a.peekW /\ g.thrown = a.thrown
          /\ g.popped = a.popped /\ g.match = a.match /\ g.reports = a.reports
      <4> DEFINE f == g.flow
      <4> HIDE DEF f
      <4>1. g = [c EXCEPT !.flow = f]
        BY <3>6 DEF f
      <4> QED
        BY <3>5, <4>1 DEF AppType
    <3>8. g.flow \in Flows /\ Extends(a.flow, g.flow, "r", data)
      BY <3>5, <3>6, AppFields
    <3>9. /\ Copied(g.flow, "w") = Copied(a.flow, "w")
          /\ InOrder(a.flow, "w") => InOrder(g.flow, "w")
      BY <1>0, <1>1, <3>4, <3>8, ExtendsOther
    <3>10. Copied(a.flow, "r") = 1 .. a.read /\ InOrder(a.flow, "r")
      BY <1>0, <1>3, <3>1 DEF InspectedOnce, PeekedOnce
    <3>11. Copied(g.flow, "r") = 1 .. a.arrived /\ InOrder(g.flow, "r")
      <4>1. \A b \in Copied(a.flow, "r"), d \in Range(data) : b < d
        BY <1>1, <3>4, <3>10
      <4>2. Copied(g.flow, "r") = Copied(a.flow, "r") \cup Range(data) /\ InOrder(g.flow, "r")
        BY <1>0, <1>1, <3>4, <3>8, <3>10, <4>1, ExtendsSame
      <4>3. (1 .. a.read) \cup (a.read + 1 .. a.arrived) = 1 .. a.arrived
        BY <1>1, <3>1
      <4> QED
        BY <3>4, <3>10, <4>2, <4>3
    <3>12. AllSound(g)
      BY <1>0, <1>1, <3>6, <3>7, SoundKept
    <3>13. p \in AppType /\ AllSound(p) /\ SameTraffic(g, p)
      BY <3>3, <3>6, <3>12, DetectIs
    <3>14. InspectedOnce(g)
      <4>1. Copied(a.flow, "w") = 1 .. a.peekW /\ a.written <= a.peekW /\ InOrder(a.flow, "w")
        BY <1>0, <1>3 DEF InspectedOnce, PeekedOnce
      <4>2. PeekedOnce(g)
        BY <3>1, <3>7, <3>9, <3>11, <4>1 DEF PeekedOnce
      <4> QED
        BY <1>3, <3>7, <3>9, <4>1, <4>2 DEF InspectedOnce
    <3>15. /\ g.read <= g.arrived /\ g.written <= g.given /\ g.peekW <= g.given /\ g.cap >= BuffSize
           /\ \A b \in Copied(g.flow, "w") : b <= g.peekW
      BY <1>0, <3>7, <3>9 DEF FlowSound
    <3>16. Peeked(p)
      <4>1. g.peekR <= g.arrived
        BY <1>1, <3>7
      <4> QED
        BY <1>3, <3>7, <3>13, <3>14, <3>15, <4>1 DEF Peeked, SameTraffic, InspectedOnce, PeekedOnce
    <3> QED
      BY <3>7, <3>13, <3>16 DEF SameTraffic
  <2> QED
    BY <1>1, <2>2, <2>3
<1> QED
  BY <1>2, <1>3

\* after_read: what fits is taken; a read that is shorter than the peek fills a
\* buffer that is no smaller than max_detect_bytes.
LEMMA AfterReadGood ==
    ASSUME NEW p, Peeked(p), p.arrived > p.read, ~p.thrown,
           NEW n, n = IF p.arrived - p.read < p.cap THEN p.arrived - p.read ELSE p.cap,
           NEW limit, NEW b, b = AfterRead(GrowReadBuf(p, n, limit), n)
    PROVE  Healthy(b)
<1>0. /\ p \in AppType /\ AllSound(p) /\ InspectedOnce(p)
      /\ p.read <= p.arrived /\ p.written <= p.given /\ p.peekW <= p.given /\ p.cap >= BuffSize
      /\ \A x \in Copied(p.flow, "w") : x <= p.peekW
      /\ p.mode = "POST" => p.peekW = 0
      /\ p.mode = "PRE" => p.peekR <= p.arrived /\ (p.read < MaxDetect => p.peekR = p.arrived)
  BY DEF Peeked
<1>1. /\ p.arrived \in 0 .. MaxBytes /\ p.read \in 0 .. MaxBytes /\ p.peekR \in 0 .. MaxBytes
      /\ p.cap \in Nat /\ MaxDetect \in Nat /\ BuffSize \in Nat /\ MaxBytes \in Nat
      /\ p.popped \in Nat /\ MaxDetect <= BuffSize
  BY <1>0, AppFields, DetectFitsBuffer
<1>2. /\ n \in Nat /\ n <= p.cap /\ p.read + n <= p.arrived
      /\ n = p.arrived - p.read \/ n = p.cap
  BY <1>1
<1> DEFINE q == GrowReadBuf(p, n, limit)
           r == p.read + n
           c == [q EXCEPT !.read = r]
           data == Bytes(p.read, r)
<1>3. /\ q \in AppType /\ q.cap >= BuffSize /\ q.mode = p.mode /\ q.arrived = p.arrived
      /\ q.read = p.read
      /\ q.peekR = p.peekR /\ q.given = p.given /\ q.written = p.written /\ q.peekW = p.peekW
      /\ q.flow = p.flow /\ q.popped = p.popped /\ q.match = p.match /\ q.reports = p.reports
      /\ q.thrown = p.thrown
  <2>1. CASE n = p.cap /\ n # limit
    <3> DEFINE k == 2 * p.cap
    <3>1. k \in Nat /\ k >= BuffSize /\ q = [p EXCEPT !.cap = k]
      BY <1>0, <1>1, <2>1 DEF GrowReadBuf
    <3> HIDE DEF k, q
    <3> QED
      BY <1>0, <3>1 DEF AppType
  <2>2. CASE ~(n = p.cap /\ n # limit)
    <3>1. q = p
      BY <2>2 DEF GrowReadBuf
    <3> HIDE DEF q
    <3> QED
      BY <1>0, <3>1
  <2> QED
    BY <2>1, <2>2
<1>4. r \in 0 .. MaxBytes /\ r <= p.arrived /\ p.read <= r
  BY <1>1, <1>2
<1>5. b = PostRead(c, data)
  BY <1>3 DEF AfterRead
<1>6. /\ data \in Seq(1 .. MaxBytes) /\ Len(data) \in Nat
      /\ Range(data) = p.read + 1 .. r /\ Increasing(data)
  <2>1. p.read \in Nat
    BY <1>1
  <2>2. data \in Seq(1 .. MaxBytes) /\ Range(data) = p.read + 1 .. r /\ Increasing(data)
    BY <1>1, <1>4, <2>1, BytesIs
  <2> HIDE DEF data
  <2> QED
    BY <2>2
<1> HIDE DEF q, data
<1>7. /\ c \in AppType /\ c.read = r /\ c.cap = q.cap /\ c.mode = p.mode /\ c.arrived = p.arrived
      /\ c.peekR = p.peekR /\ c.given = p.given /\ c.written = p.written /\ c.peekW = p.peekW
      /\ c.flow = p.flow /\ c.popped = p.popped /\ c.match = p.match /\ c.reports = p.reports
      /\ c.thrown = p.thrown
  <2> HIDE DEF r
  <2> QED
    BY <1>3, <1>4 DEF AppType
<1>8. ASSUME p.mode = "PRE"
      PROVE  (r <= p.peekR \/ r > MaxDetect) /\ (r < MaxDetect => p.peekR = r)
  <2>1. CASE p.read < MaxDetect
    <3>1. p.peekR = p.arrived
      BY <1>0, <1>8, <2>1
    <3>2. r = p.arrived \/ r >= MaxDetect
      BY <1>0, <1>1, <1>2
    <3> QED
      BY <1>1, <1>4, <3>1, <3>2
  <2>2. CASE ~(p.read < MaxDetect)
    <3>1. p.read <= p.peekR \/ p.read > MaxDetect
      BY <1>0, <1>8 DEF InspectedOnce, PeekedOnce
    <3>2. n = 0 => r = p.read
      BY <1>1
    <3>3. n # 0 => r > MaxDetect
      BY <1>1, <1>2, <2>2
    <3>4. ~(r < MaxDetect)
      BY <1>1, <1>2, <2>2
    <3> QED
      BY <3>1, <3>2, <3>3, <3>4
  <2> QED
    BY <2>1, <2>2
<1> HIDE DEF r, c
<1>9. AllSound(c) /\ c.read <= c.arrived
  BY <1>0, <1>1, <1>4, <1>7, SoundKept
<1>10. ASSUME c.mode # "POST" PROVE Healthy(c)
  <2>1. c.mode = "PRE" => PeekedOnce(c)
    BY <1>0, <1>7, <1>8 DEF InspectedOnce, PeekedOnce
  <2>2. InspectedOnce(c)
    BY <1>0, <1>7, <1>10, <2>1 DEF InspectedOnce
  <2>3. FlowSound(c)
    BY <1>0, <1>3, <1>7, <1>8, <1>9, <1>10, <2>2 DEF FlowSound
  <2> QED
    BY <1>7, <1>9, <2>3 DEF Healthy
<1>11. CASE c.mode \notin {"POST", "CONTINUOUS"}
  <2>1. b = c
    BY <1>5, <1>11 DEF PostRead
  <2> QED
    BY <1>10, <1>11, <2>1
<1>12. ASSUME NEW i, i = InsideDetectOnContinue(c), Healthy(i), i.mode = "CONTINUOUS", ~i.thrown,
              c.mode \in {"POST", "CONTINUOUS"}
       PROVE  Healthy(b)
  <2> DEFINE d == FlowAppend(i, "r", data)
             k == ContinuousModeKeeper(d, Len(data))
  <2>1. b = Detect(k)
    BY <1>5, <1>12 DEF PostRead
  <2>2. Healthy(d) /\ ~d.thrown
    BY <1>6, <1>12, AppendRead
  <2> HIDE DEF d
  <2>3. Healthy(k)
    BY <1>6, <2>2, KeeperGood
  <2> HIDE DEF k
  <2> QED
    BY <2>1, <2>3, DetectGood
<1>13. CASE c.mode = "CONTINUOUS"
  <2>1. c = InsideDetectOnContinue(c)
    BY <1>13 DEF InsideDetectOnContinue
  <2> QED
    BY <1>7, <1>10, <1>12, <1>13, <2>1
<1>14. CASE c.mode = "POST" /\ ~InsideDetectRanges(c)
  <2> DEFINE i == [c EXCEPT !.mode = "CONTINUOUS", !.left = ContinuousLeft]
  <2>1. i = InsideDetectOnContinue(c)
    BY <1>14 DEF InsideDetectOnContinue
  <2>2. c.peekW = 0 /\ InOrder(c.flow, "w") /\ ~c.thrown
    BY <1>0, <1>7, <1>14 DEF InspectedOnce
  <2>3. Healthy(i) /\ i.mode = "CONTINUOUS" /\ ~i.thrown
    BY <1>0, <1>3, <1>7, <1>9, <2>2, ToContinuous
  <2> HIDE DEF i
  <2> QED
    BY <1>12, <1>14, <2>1, <2>3
<1>15. CASE c.mode = "POST" /\ InsideDetectRanges(c)
  <2> DEFINE g == FlowAppend(c, "r", data)
  <2>0. "r" \in Sides /\ "w" \in Sides /\ p.flow \in Flows /\ Len(p.flow) \in Nat
    BY <1>0, AppFields DEF Sides, Flows
  <2>1. g \in AppType /\ Extends(c.flow, g.flow, "r", data) /\ g = [c EXCEPT !.flow = g.flow]
    BY <1>6, <1>7, <2>0, FlowAppendIs
  <2>2. b = Detect(g)
    <3>1. InsideDetectOnContinue(c) = c
      BY <1>15 DEF InsideDetectOnContinue
    <3>2. g.mode = "POST"
      <4> DEFINE f == g.flow
      <4> HIDE DEF f
      <4>1. g = [c EXCEPT !.flow = f]
        BY <2>1 DEF f
      <4> QED
        BY <1>7, <1>15, <4>1 DEF AppType
    <3>3. ContinuousModeKeeper(g, Len(data)) = g
      BY <3>2 DEF ContinuousModeKeeper
    <3> QED
      BY <1>5, <1>15, <3>1, <3>3 DEF PostRead
  <2> HIDE DEF g
  <2>3. /\ g.read = r /\ g.cap = q.cap /\ g.mode = p.mode /\ g.arrived = p.arrived
        /\ g.peekR = p.peekR /\ g.given = p.given /\ g.written = p.written /\ g.peekW = p.peekW
        /\ g.popped = p.popped /\ g.match = p.match /\ g.reports = p.reports
        /\ g.thrown = p.thrown
    <3> DEFINE f == g.flow
    <3> HIDE DEF f
    <3>1. g = [c EXCEPT !.flow = f]
      BY <2>1 DEF f
    <3> QED
      BY <1>7, <3>1 DEF AppType
  <2>4. g.flow \in Flows /\ Extends(p.flow, g.flow, "r", data)
    BY <1>7, <2>1, AppFields
  <2>5. /\ p.mode = "POST" /\ Copied(p.flow, "r") = 1 .. p.read /\ InOrder(p.flow, "r")
        /\ Copied(p.flow, "w") = {} /\ InOrder(p.flow, "w")
        /\ p.written > 0 => ~InsideDetectRanges(p)
    BY <1>0, <1>7, <1>15 DEF InspectedOnce, ReadOnlyCopied
  <2>6. Copied(g.flow, "w") = {} /\ InOrder(g.flow, "w")
    BY <1>6, <2>0, <2>4, <2>5, ExtendsOther
  <2>7. Copied(g.flow, "r") = 1 .. r /\ InOrder(g.flow, "r")
    <3>1. \A x \in Copied(p.flow, "r"), y \in Range(data) : x < y
      BY <1>1, <1>4, <1>6, <2>5
    <3>2. Copied(g.flow, "r") = Copied(p.flow, "r") \cup Range(data) /\ InOrder(g.flow, "r")
      BY <1>6, <2>0, <2>4, <2>5, <3>1, ExtendsSame
    <3>3. (1 .. p.read) \cup (p.read + 1 .. r) = 1 .. r
      BY <1>1, <1>4
    <3> QED
      BY <1>6, <2>5, <3>2, <3>3
  <2>8. ~(p.written > 0)
    <3>1. p.written \in Nat /\ MaxDetect \in Nat /\ MinDetect \in Nat /\ MaxExchanges \in Nat
      BY <1>0, AppFields, BytesAssumption
    <3>2. InsideDetectRanges(p)
      BY <1>1, <1>4, <1>7, <1>15, <2>0, <3>1 DEF InsideDetectRanges
    <3> QED
      BY <2>5, <3>2
  <2>9. InspectedOnce(g)
    BY <2>3, <2>5, <2>6, <2>7, <2>8 DEF InspectedOnce, ReadOnlyCopied
  <2>10. FlowSound(g)
    BY <1>0, <1>3, <1>7, <1>9, <2>3, <2>5, <2>6, <2>9 DEF FlowSound
  <2>11. AllSound(g)
    BY <1>0, <1>1, <2>1, <2>3, SoundKept
  <2> QED
    BY <2>1, <2>2, <2>10, <2>11, DetectGood DEF Healthy
<1> QED
  BY <1>11, <1>13, <1>14, <1>15

\* pre_write: what was given to write since the last copy is appended, unless some
\* of it was written in POST mode; no counter of the socket changes.
LEMMA PreWriteGood ==
    ASSUME NEW a, Healthy(a), ~a.thrown, NEW p, p = PreWrite(a)
    PROVE  /\ Healthy(p) /\ p.given = a.given /\ p.written = a.written
           /\ p.thrown \/ p.mode \notin {"PRE", "CONTINUOUS"} \/ p.peekW = p.given
<1> DEFINE i == InsideDetectOnContinue(a)
           delta == (i.written + WriteBuf(i)) - i.peekW
<1>1. CASE a.mode \notin {"PRE", "CONTINUOUS"}
  <2>1. p = a
    BY <1>1 DEF PreWrite
  <2> QED
    BY <1>1, <2>1
<1>2. CASE a.mode \in {"PRE", "CONTINUOUS"}
  <2>1. /\ Healthy(i) /\ i.mode \in {"PRE", "CONTINUOUS"} /\ i.given = a.given
        /\ i.written = a.written /\ i.peekW = a.peekW /\ ~i.thrown
    BY <1>2, OnContinue
  <2>2. p = IF delta <= 0 THEN Detect(i)
            ELSE IF delta > WriteBuf(i) THEN [i EXCEPT !.thrown = TRUE]
            ELSE Detect(ContinuousModeKeeper(
                     FlowAppend([i EXCEPT !.peekW = @ + delta], "w", Bytes(i.given - delta, i.given)),
                     delta))
    BY <1>2 DEF PreWrite
  <2> HIDE DEF i
  <2>a. /\ i \in AppType /\ AllSound(i) /\ FlowSound(i) /\ InspectedOnce(i)
        /\ "r" \in Sides /\ "w" \in Sides /\ i.peekW <= i.given
    BY <2>1 DEF Healthy, FlowSound, Sides
  <2>b. /\ i.given \in 0 .. MaxBytes /\ i.written \in 0 .. MaxBytes /\ i.peekW \in 0 .. MaxBytes
        /\ MaxBytes \in Nat /\ i.flow \in Flows /\ i.popped \in Nat
    BY <2>a, AppFields
  <2>3. CASE delta <= 0
    <3>1. Healthy(p) /\ SameTraffic(i, p)
      BY <2>1, <2>2, <2>3, DetectGood
    <3>2. i.peekW = i.given
      BY <2>3, <2>a, <2>b DEF WriteBuf
    <3> QED
      BY <2>1, <3>1, <3>2 DEF SameTraffic
  <2>c. CASE ~(delta <= 0) /\ delta > WriteBuf(i)
    <3>1. i.written > i.peekW
      BY <2>b, <2>c DEF WriteBuf
    <3>2. i.mode = "CONTINUOUS" /\ i.peekW = 0
      BY <2>1, <2>a, <2>b, <3>1 DEF InspectedOnce, PeekedOnce
    <3>3. p = [i EXCEPT !.thrown = TRUE]
      BY <2>2, <2>c
    <3>4. /\ p \in AppType /\ p.arrived = i.arrived /\ p.given = i.given
          /\ p.written = i.written /\ p.mode = i.mode /\ p.read = i.read
          /\ p.cap = i.cap /\ p.peekR = i.peekR /\ p.peekW = i.peekW
          /\ p.flow = i.flow /\ p.popped = i.popped /\ p.match = i.match
          /\ p.reports = i.reports /\ p.thrown = TRUE
      BY <2>a, <3>3 DEF AppType
    <3>5. i.written > 0
      BY <3>1, <3>2
    <3>6. FlowSound(p)
      BY <2>a, <3>2, <3>4, <3>5 DEF FlowSound, InspectedOnce
    <3>7. AllSound(p)
      BY <2>a, <2>b, <3>4, SoundKept
    <3> QED
      BY <2>1, <3>4, <3>6, <3>7 DEF Healthy
  <2>4. CASE ~(delta <= 0) /\ ~(delta > WriteBuf(i))
    <3>0. /\ i \in AppType /\ AllSound(i) /\ FlowSound(i) /\ InspectedOnce(i)
          /\ "r" \in Sides /\ "w" \in Sides
      BY <2>a
    <3>1. /\ i.given \in 0 .. MaxBytes /\ i.written \in 0 .. MaxBytes /\ i.peekW \in 0 .. MaxBytes
          /\ MaxBytes \in Nat /\ i.flow \in Flows /\ i.popped \in Nat
      BY <2>b
    <3>2. delta \in Nat /\ i.peekW + delta = i.given /\ i.given - delta = i.peekW /\ i.peekW <= i.given
      BY <2>4, <3>1 DEF WriteBuf
    <3> HIDE DEF delta
    <3> DEFINE c == [i EXCEPT !.peekW = i.given]
               data == Bytes(i.peekW, i.given)
               g == FlowAppend(c, "w", data)
               k == ContinuousModeKeeper(g, delta)
    <3>3. p = Detect(k)
      BY <2>2, <2>4, <3>2
    <3>4. data \in Seq(1 .. MaxBytes) /\ Range(data) = i.peekW + 1 .. i.given /\ Increasing(data)
      <4>1. i.peekW \in Nat
        BY <3>1
      <4> QED
        BY <3>1, <3>2, <4>1, BytesIs
    <3> HIDE DEF data
    <3>5. /\ c \in AppType /\ c.peekW = i.given
          /\ c.mode = i.mode /\ c.arrived = i.arrived /\ c.read = i.read /\ c.cap = i.cap
          /\ c.given = i.given /\ c.written = i.written /\ c.peekR = i.peekR /\ c.thrown = i.thrown
          /\ c.flow = i.flow /\ c.popped = i.popped /\ c.match = i.match /\ c.reports = i.reports
      BY <3>0, <3>1 DEF AppType
    <3> HIDE DEF c
    <3>6. g \in AppType /\ Extends(c.flow, g.flow, "w", data) /\ g = [c EXCEPT !.flow = g.flow]
      BY <3>0, <3>4, <3>5, FlowAppendIs
    <3> HIDE DEF g
    <3>7. /\ g.peekW = i.given
          /\ g.mode = i.mode /\ g.arrived = i.arrived /\ g.read = i.read /\ g.cap = i.cap
          /\ g.given = i.given /\ g.written = i.written /\ g.peekR = i.peekR /\ g.thrown = i.thrown
          /\ g.popped = i.popped /\ g.match = i.match /\ g.reports = i.reports
      <4> DEFINE f == g.flow
      <4> HIDE DEF f
      <4>1. g = [c EXCEPT !.flow = f]
        BY <3>6 DEF f
      <4> QED
        BY <3>5, <4>1 DEF AppType
    <3>8. g.flow \in Flows /\ Extends(i.flow, g.flow, "w", data)
      BY <3>5, <3>6, AppFields
    <3>9. /\ Copied(g.flow, "r") = Copied(i.flow, "r")
          /\ InOrder(i.flow, "r") => InOrder(g.flow, "r")
      BY <3>0, <3>1, <3>4, <3>8, ExtendsOther
    <3>10. InOrder(i.flow, "w") /\ \A b \in Copied(i.flow, "w") : b <= i.peekW /\ b \in 1 .. MaxBytes
      BY <3>0 DEF FlowSound, InspectedOnce, Copied
    <3>11. Copied(g.flow, "w") = Copied(i.flow, "w") \cup (i.peekW + 1 .. i.given) /\ InOrder(g.flow, "w")
      <4>1. \A b \in Copied(i.flow, "w"), d \in Range(data) : b < d
        BY <3>1, <3>4, <3>10
      <4> QED
        BY <3>0, <3>1, <3>4, <3>8, <3>10, <4>1, ExtendsSame
    <3>12. \A b \in Copied(g.flow, "w") : b <= g.peekW
      BY <3>1, <3>2, <3>7, <3>10, <3>11
    <3>13. i.mode = "PRE" => Copied(g.flow, "w") = 1 .. g.peekW
      <4>1. (1 .. i.peekW) \cup (i.peekW + 1 .. i.given) = 1 .. i.given
        BY <3>1, <3>2
      <4> QED
        BY <3>0, <3>7, <3>11, <4>1 DEF InspectedOnce, PeekedOnce
    <3>14. AllSound(g)
      BY <3>0, <3>1, <3>6, <3>7, SoundKept
    <3>15. InspectedOnce(g)
      <4>1. g.written <= g.peekW
        BY <3>0, <3>7 DEF FlowSound
      <4>2. i.mode = "PRE" => PeekedOnce(g)
        BY <3>0, <3>7, <3>9, <3>13, <4>1 DEF InspectedOnce, PeekedOnce
      <4> QED
        BY <2>1, <3>7, <3>11, <4>1, <4>2 DEF InspectedOnce
    <3>16. g.peekW <= g.given
      BY <3>1, <3>7
    <3>17. FlowSound(g)
      BY <2>1, <3>0, <3>7, <3>12, <3>15, <3>16 DEF FlowSound
    <3>18. Healthy(g)
      BY <3>6, <3>14, <3>17 DEF Healthy
    <3>19. /\ Healthy(k) /\ k.mode \in {g.mode, "NONE"} /\ k.given = g.given
           /\ k.written = g.written /\ k.peekW = g.peekW
      BY <2>1, <3>2, <3>7, <3>18, KeeperGood
    <3> HIDE DEF k
    <3>20. Healthy(p) /\ SameTraffic(k, p)
      BY <3>3, <3>19, DetectGood
    <3> QED
      BY <2>1, <3>7, <3>19, <3>20 DEF SameTraffic
  <2> QED
    BY <2>3, <2>c, <2>4
<1> QED
  BY <1>1, <1>2

-----------------------------------------------------------------------------
(* AppFlow: the steps, and the theorems.                                   *)

LEMMA AppInvIs == AppInv <=> Healthy(app)
BY DEF AppInv, Healthy, AllSound

LEMMA AppReadStep == ASSUME AppInv, AppRead PROVE Healthy(app')
<1> DEFINE p == PreRead(app)
           n == IF p.arrived - p.read < p.cap THEN p.arrived - p.read ELSE p.cap
           limit == p.peekR - app.peekR
<1>1. /\ app.arrived > app.read /\ ~app.thrown
      /\ app' = IF p.thrown THEN p ELSE AfterRead(GrowReadBuf(p, n, limit), n)
  BY DEF AppRead
<1>2. Healthy(app)
  BY AppInvIs
<1>3. Peeked(p) /\ ~p.thrown /\ p.arrived > p.read
  BY <1>1, <1>2, PreReadGood
<1> HIDE DEF p
<1>4. app' = AfterRead(GrowReadBuf(p, n, limit), n)
  BY <1>1, <1>3
<1> QED
  BY <1>3, <1>4, AfterReadGood

\* A step that only counts more bytes of a direction.
LEMMA CountedMore ==
    ASSUME NEW a, Healthy(a), NEW b \in AppType, b.arrived >= a.arrived, b.given >= a.given,
           b.written = a.written, b.mode = a.mode, b.read = a.read, b.cap = a.cap,
           b.peekR = a.peekR, b.peekW = a.peekW, b.flow = a.flow, b.popped = a.popped,
           b.match = a.match, b.reports = a.reports, b.thrown = a.thrown
    PROVE  Healthy(b)
<1>0. a \in AppType /\ AllSound(a) /\ FlowSound(a)
  BY DEF Healthy
<1>1. /\ a.arrived \in Nat /\ b.arrived \in Nat /\ a.given \in Nat /\ b.given \in Nat
      /\ a.read \in Nat /\ a.peekR \in Nat /\ a.peekW \in Nat /\ a.popped \in Nat
      /\ a.written \in Nat
  BY <1>0, AppFields
<1>2. AllSound(b)
  BY <1>0, <1>1, SoundKept
<1>3. InspectedOnce(b)
  <2>1. InsideDetectRanges(b) = InsideDetectRanges(a)
    BY DEF InsideDetectRanges
  <2> QED
    BY <1>0, <2>1 DEF FlowSound, InspectedOnce, PeekedOnce, ReadOnlyCopied
<1>4. /\ b.read <= b.arrived /\ b.peekW <= b.given /\ b.written <= b.given
      /\ b.mode = "PRE" => b.peekR <= b.arrived
  BY <1>0, <1>1 DEF FlowSound
<1>5. FlowSound(b)
  BY <1>0, <1>3, <1>4 DEF FlowSound
<1> QED
  BY <1>2, <1>5 DEF Healthy

LEMMA AppArriveStep ==
    ASSUME AppInv, NEW n \in 1 .. MaxBytes, AppArrive(n) PROVE Healthy(app')
<1> DEFINE k == app.arrived + n
<1>0. Healthy(app) /\ app \in AppType
  BY AppInvIs DEF Healthy
<1>1. k \in 0 .. MaxBytes /\ k >= app.arrived /\ app' = [app EXCEPT !.arrived = k]
  BY <1>0, AppFields DEF AppArrive
<1> HIDE DEF k
<1>2. /\ app' \in AppType /\ app'.arrived = k /\ app'.given = app.given
      /\ app'.written = app.written /\ app'.mode = app.mode /\ app'.read = app.read
      /\ app'.cap = app.cap /\ app'.peekR = app.peekR /\ app'.peekW = app.peekW
      /\ app'.flow = app.flow /\ app'.popped = app.popped /\ app'.match = app.match
      /\ app'.reports = app.reports /\ app'.thrown = app.thrown
  BY <1>0, <1>1 DEF AppType
<1>3. app.given >= app.given /\ app.written <= app.given
  BY <1>0, AppFields DEF Healthy, FlowSound
<1> QED
  BY <1>0, <1>1, <1>2, <1>3, CountedMore

LEMMA AppToWriteStep ==
    ASSUME AppInv, NEW n \in 1 .. MaxBytes, AppToWrite(n) PROVE Healthy(app')
<1> DEFINE k == app.given + n
<1>0. Healthy(app) /\ app \in AppType
  BY AppInvIs DEF Healthy
<1>1. k \in 0 .. MaxBytes /\ k >= app.given /\ app' = [app EXCEPT !.given = k]
  BY <1>0, AppFields DEF AppToWrite
<1>a. app.written <= k /\ app.arrived >= app.arrived
  BY <1>0, <1>1, AppFields DEF Healthy, FlowSound
<1> HIDE DEF k
<1>2. /\ app' \in AppType /\ app'.arrived = app.arrived /\ app'.given = k
      /\ app'.written = app.written /\ app'.mode = app.mode /\ app'.read = app.read
      /\ app'.cap = app.cap /\ app'.peekR = app.peekR /\ app'.peekW = app.peekW
      /\ app'.flow = app.flow /\ app'.popped = app.popped /\ app'.match = app.match
      /\ app'.reports = app.reports /\ app'.thrown = app.thrown
  BY <1>0, <1>1 DEF AppType
<1> QED
  BY <1>0, <1>1, <1>a, <1>2, CountedMore

\* In POST mode nothing written was ever copied, so that post_write finds more
\* bytes to copy than the buffer holds, and view() throws; in the other modes what
\* is written was copied.
LEMMA AppWriteStep ==
    ASSUME AppInv, NEW n \in 0 .. MaxBytes, AppWrite(n) PROVE Healthy(app')
<1> DEFINE p == PreWrite(app)
           k == p.written + n
           c == [p EXCEPT !.written = k]
<1>0. Healthy(app) /\ app \in AppType
  BY AppInvIs DEF Healthy
<1>1. /\ n \in 0 .. WriteBuf(app) /\ ~app.thrown
      /\ app' = IF p.thrown \/ n = 0 THEN p ELSE PostWrite(c, WriteBuf(p))
  BY DEF AppWrite
<1>2. /\ Healthy(p) /\ p.given = app.given /\ p.written = app.written
      /\ p.thrown \/ p.mode \notin {"PRE", "CONTINUOUS"} \/ p.peekW = p.given
  BY <1>0, <1>1, PreWriteGood
<1>3. p \in AppType /\ AllSound(p) /\ FlowSound(p) /\ InspectedOnce(p)
  BY <1>2 DEF Healthy, FlowSound
<1>4. /\ app.given \in 0 .. MaxBytes /\ app.written \in 0 .. MaxBytes /\ p.popped \in Nat
      /\ MaxBytes \in Nat /\ p.mode \in {"NONE", "PRE", "POST", "CONTINUOUS"}
  BY <1>0, <1>3, AppFields DEF Modes
<1>5. k \in 0 .. MaxBytes /\ k <= p.given
  BY <1>1, <1>2, <1>4 DEF WriteBuf
<1> HIDE DEF p
<1>6. /\ c \in AppType /\ c.arrived = p.arrived /\ c.given = p.given
      /\ c.written = k /\ c.mode = p.mode /\ c.read = p.read
      /\ c.cap = p.cap /\ c.peekR = p.peekR /\ c.peekW = p.peekW
      /\ c.flow = p.flow /\ c.popped = p.popped /\ c.match = p.match
      /\ c.reports = p.reports /\ c.thrown = p.thrown
  <2> HIDE DEF k
  <2> QED
    BY <1>3, <1>5 DEF AppType
<1> HIDE DEF c
<1>7. ASSUME NEW b \in AppType, b.arrived = c.arrived, b.given = c.given,
             b.written = c.written, b.mode = c.mode, b.read = c.read, b.cap = c.cap,
             b.peekR = c.peekR, b.peekW = c.peekW, b.flow = c.flow, b.popped = c.popped,
             b.match = c.match, b.reports = c.reports, InspectedOnce(b)
      PROVE  Healthy(b)
  <2>1. AllSound(b)
    BY <1>3, <1>4, <1>6, <1>7, SoundKept
  <2>2. FlowSound(b)
    BY <1>3, <1>5, <1>6, <1>7 DEF FlowSound
  <2> QED
    BY <1>7, <2>1, <2>2 DEF Healthy
<1>8. CASE p.thrown \/ n = 0
  BY <1>1, <1>2, <1>8
<1>9. CASE ~p.thrown /\ n # 0 /\ p.mode # "POST"
  <2>1. app' = c
    BY <1>1, <1>6, <1>9 DEF PostWrite
  <2>2. c.mode \in {"PRE", "CONTINUOUS"} => c.written <= c.peekW
    BY <1>2, <1>5, <1>6, <1>9
  <2>3. c.mode = "PRE" => PeekedOnce(c)
    BY <1>3, <1>6, <2>2 DEF InspectedOnce, PeekedOnce
  <2>4. InspectedOnce(c)
    BY <1>3, <1>6, <1>9, <2>2, <2>3 DEF InspectedOnce
  <2> QED
    BY <1>6, <1>7, <2>1, <2>4
<1>10. CASE ~p.thrown /\ n # 0 /\ p.mode = "POST"
  <2>1. /\ c.peekW = 0 /\ InOrder(c.flow, "w") /\ InOrder(c.flow, "r")
        /\ Copied(c.flow, "r") = 1 .. c.read /\ Copied(c.flow, "w") = {}
    BY <1>3, <1>6, <1>10 DEF FlowSound, InspectedOnce, ReadOnlyCopied
  <2>2. c.written > 0
    BY <1>2, <1>4, <1>6, <1>10
  <2>3. CASE ~InsideDetectRanges(c)
    <3>1. app' = c
      BY <1>1, <1>10, <2>3 DEF PostWrite
    <3>2. InspectedOnce(c)
      BY <1>6, <1>10, <2>1, <2>3 DEF InspectedOnce, ReadOnlyCopied
    <3> QED
      BY <1>6, <1>7, <3>1, <3>2
  <2>4. CASE InsideDetectRanges(c)
    <3>1. (c.written + WriteBuf(p)) - c.peekW \notin 1 .. WriteBuf(p)
      BY <1>1, <1>2, <1>4, <1>6, <1>10, <2>1 DEF WriteBuf
    <3>2. app' = [c EXCEPT !.thrown = TRUE]
      BY <1>1, <1>6, <1>10, <2>4, <3>1 DEF PostWrite
    <3>3. /\ app' \in AppType /\ app'.arrived = c.arrived /\ app'.given = c.given
          /\ app'.written = c.written /\ app'.mode = c.mode /\ app'.read = c.read
          /\ app'.cap = c.cap /\ app'.peekR = c.peekR /\ app'.peekW = c.peekW
          /\ app'.flow = c.flow /\ app'.popped = c.popped /\ app'.match = c.match
          /\ app'.reports = c.reports /\ app'.thrown = TRUE
      BY <1>6, <3>2 DEF AppType
    <3> DEFINE b == app'
    <3> HIDE DEF b
    <3>4. InspectedOnce(b)
      BY <1>6, <1>10, <2>1, <2>2, <3>3 DEF InspectedOnce, ReadOnlyCopied, b
    <3>5. Healthy(b)
      BY <1>7, <3>3, <3>4 DEF b
    <3> QED
      BY <3>5 DEF b
  <2> QED
    BY <2>3, <2>4
<1> QED
  BY <1>8, <1>9, <1>10

LEMMA AppInitially == ASSUME AppInit PROVE AppInv
<1>1. PICK m \in {"PRE", "POST"} :
         app = [mode |-> m, arrived |-> 0, read |-> 0, cap |-> BuffSize, peekR |-> 0,
                given |-> 0, written |-> 0, peekW |-> 0, flow |-> <<>>, popped |-> 0, left |-> 0,
                match |-> [s \in Signatures |-> [hit |-> FALSE, ret |-> 0, at |-> <<>>]],
                reports |-> [s \in Signatures |-> 0], thrown |-> FALSE]
  BY DEF AppInit
<1> DEFINE none == [hit |-> FALSE, ret |-> 0, at |-> <<>>]
           match == [s \in Signatures |-> none]
           reports == [s \in Signatures |-> 0]
           f == <<>>
<1>2. MaxBytes \in Nat /\ ContinuousLeft \in Nat /\ BuffSize \in Nat /\ MaxDetect \in Nat
  BY BytesAssumption
<1>3. none \in MatchType /\ none.at = <<>> /\ none.hit = FALSE /\ none.ret = 0
  BY DEF MatchType
<1> HIDE DEF none
<1>4. match \in [Signatures -> MatchType] /\ reports \in [Signatures -> Nat]
  BY <1>3
<1>5. f \in Seq(AppEntry) /\ DOMAIN f = {}
  <2>1. ASSUME NEW S PROVE <<>> \in Seq(S)
    OBVIOUS
  <2>2. DOMAIN <<>> = {}
    OBVIOUS
  <2> QED
    BY <2>1, <2>2
<1>6. /\ app.mode = m /\ app.arrived = 0 /\ app.read = 0 /\ app.cap = BuffSize /\ app.peekR = 0
      /\ app.given = 0 /\ app.written = 0 /\ app.peekW = 0 /\ app.flow = f /\ app.popped = 0
      /\ app.match = match /\ app.reports = reports /\ app.thrown = FALSE
  BY <1>1 DEF none
<1>7. app \in AppType
  <2> DEFINE mt == match
             rp == reports
             fl == f
  <2>1. app = [mode |-> m, arrived |-> 0, read |-> 0, cap |-> BuffSize, peekR |-> 0,
               given |-> 0, written |-> 0, peekW |-> 0, flow |-> fl, popped |-> 0, left |-> 0,
               match |-> mt, reports |-> rp, thrown |-> FALSE]
    BY <1>1 DEF none
  <2>2. mt \in [Signatures -> MatchType] /\ rp \in [Signatures -> Nat] /\ fl \in Seq(AppEntry)
    BY <1>4, <1>5
  <2>3. 0 \in 0 .. MaxBytes /\ 0 \in 0 .. ContinuousLeft /\ m \in Modes
    BY <1>2 DEF Modes
  <2> HIDE DEF mt, rp, fl
  <2> QED
    BY <1>2, <2>1, <2>2, <2>3 DEF AppType
<1>8. \A t : Copied(f, t) = {} /\ InOrder(f, t)
  <2> HIDE DEF f
  <2> QED
    BY <1>5 DEF Copied, InOrder
<1> HIDE DEF f
<1>9. FlowSound(app)
  <2>1. 1 .. 0 = {}
    OBVIOUS
  <2>2. InspectedOnce(app)
    BY <1>2, <1>6, <1>8, <2>1 DEF InspectedOnce, PeekedOnce, ReadOnlyCopied
  <2> QED
    BY <1>2, <1>6, <1>8, <2>2 DEF FlowSound
<1>10. AllSound(app)
  <2> SUFFICES ASSUME NEW s \in Signatures PROVE MatchSound(app, s)
    BY DEF AllSound
  <2>1. app.match[s] = none /\ app.reports[s] = 0
    BY <1>6
  <2>2. Len(none.at) = 0 /\ DOMAIN none.at = {} /\ Len(s) \in Nat
    BY <1>3, SignatureTypes
  <2>3. none \in Partial(s) /\ Found(none, s, app.popped)
    BY <1>3, <2>2 DEF Partial, Found
  <2>4. app.reports[s] <= 1 /\ (app.reports[s] = 1) = FALSE /\ app.match[s].hit = FALSE
    BY <1>3, <2>1
  <2>5. /\ (app.reports[s] = 1) = app.match[s].hit
        /\ app.match[s].hit => Len(app.match[s].at) = Len(s)
        /\ app.match[s] \in Partial(s) /\ Found(app.match[s], s, app.popped)
    BY <2>1, <2>3, <2>4
  <2> QED
    BY <1>7, <2>4, <2>5, SoundMatch
<1> QED
  BY <1>7, <1>9, <1>10 DEF AppInv, AllSound

LEMMA AppNextStep == ASSUME AppInv, [AppNext]_app PROVE AppInv'
<1>1. ASSUME Healthy(app') PROVE AppInv'
  BY <1>1 DEF AppInv, Healthy, AllSound
<1>2. CASE AppRead
  BY <1>1, <1>2, AppReadStep
<1>3. CASE \E n \in 1 .. MaxBytes : AppArrive(n) \/ AppToWrite(n)
  BY <1>1, <1>3, AppArriveStep, AppToWriteStep
<1>w. CASE \E n \in 0 .. MaxBytes : AppWrite(n)
  BY <1>1, <1>w, AppWriteStep
<1>4. CASE app' = app
  BY <1>4 DEF AppInv
<1> QED
  BY <1>2, <1>3, <1>w, <1>4 DEF AppNext

\* In AppHostCX, with any sizes and any signatures, the copy of the traffic and
\* the results of the signatures stay sound in every order of reads and writes.
THEOREM InspectionInvariant == AppSpec => []AppInv
<1>1. AppInit => AppInv
  BY AppInitially
<1>2. AppInv /\ [AppNext]_app => AppInv'
  BY AppNextStep
<1> QED
  BY <1>1, <1>2, PTL DEF AppSpec

\* The state of an AppHostCX keeps its type: in particular no counter of peeked
\* bytes passes the bytes there are, and no flow entry holds an impossible byte.
THEOREM InspectionTyped == AppSpec => []AppTypeOK
<1>1. AppInv => AppTypeOK
  BY DEF AppInv, AppTypeOK
<1> QED
  BY <1>1, InspectionInvariant, PTL

\* AppHostCX::pre_read, post_read, pre_write and post_write: in PRE mode the flow
\* copies both directions, in POST mode the reads and no write, each byte once and
\* in order, and view() throws only in a context that began in POST mode, over
\* writes that were not copied.  detect: a signature is reported at most once, after
\* its elements were found in order.
THEOREM InspectionIsFaithful == AppSpec => []InspectionFaithful
<1>1. AppInv => InspectionFaithful
  BY DEF AppInv, InspectionFaithful, FlowSound, MatchSound
<1> QED
  BY <1>1, InspectionInvariant, PTL
=============================================================================
