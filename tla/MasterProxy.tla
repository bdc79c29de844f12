----------------------------- MODULE MasterProxy -----------------------------
(***************************************************************************)
(* A worker's MasterProxy (masterproxy.cpp, masterproxy.hpp) and the       *)
(* threads it sprays its sub-proxies over.                                 *)
(*                                                                         *)
(* The worker's own thread runs passes of handle_sockets_once (run phase,  *)
(* then clean-up phase), poll events of single sub-proxies, and timers.    *)
(* In a pass it runs each sub-proxy inline or in a thread of its own,      *)
(* guarded by the sub-proxy's in_progress counter.                         *)
(*                                                                         *)
(* proxies_ is a set here: a loop over it visits its members in any order. *)
(***************************************************************************)
EXTENDS Integers, FiniteSets

CONSTANTS
    Proxies,    \* the sub-proxies that may be added
    SprayMin    \* subproxy_thread_spray_min

ASSUME ProxiesAssumption == IsFiniteSet(Proxies)
ASSUME SprayMinAssumption == SprayMin \in Nat

None == "None"
ASSUME NoneAssumption == None \notin Proxies

VARIABLES
    fresh,      \* sub-proxies not created yet
    list,       \* proxies_
    mpc,        \* the worker thread: idle, or the phase it is in
    todo,       \* sub-proxies the current loop has still to visit
    cur,        \* the sub-proxy whose call or thread the worker waits for
    spray,      \* this pass runs sub-proxies in threads
    thr,        \* thr[p]: the entry of p holds a joinable thread
    hpc,        \* the call of run_proxy for p: out, start, inside or leave
    inProgress, \* state().in_progress()
    dead,       \* state().dead() of each sub-proxy
    mdead       \* state().dead() of the master itself

vars == <<fresh, list, mpc, todo, cur, spray, thr, hpc, inProgress, dead, mdead>>

Init ==
    /\ fresh = Proxies
    /\ list = {}
    /\ mpc = "idle"
    /\ todo = {}
    /\ cur = None
    /\ spray = FALSE
    /\ thr = [p \in Proxies |-> FALSE]
    /\ hpc = [p \in Proxies |-> "out"]
    /\ inProgress = [p \in Proxies |-> 0]
    /\ dead = [p \in Proxies |-> FALSE]
    /\ mdead = FALSE

-----------------------------------------------------------------------------
(* The worker between passes.                                              *)

\* on_left_new: add_proxy.
AddProxy(p) ==
    /\ mpc = "idle"
    /\ ~mdead
    /\ p \in fresh
    /\ fresh' = fresh \ {p}
    /\ list' = list \cup {p}
    /\ UNCHANGED <<mpc, todo, cur, spray, thr, hpc, inProgress, dead, mdead>>

\* run_poll_socket: a socket of p is ready and p's handler runs in the worker
\* thread, without in_progress.  It may end the sub-proxy, or throw out of
\* run_poll, and baseProxy::run then ends the worker.
PollHandle(p) ==
    /\ mpc = "idle"
    /\ ~mdead
    /\ p \in list
    /\ \/ dead' = [dead EXCEPT ![p] = TRUE] /\ UNCHANGED mdead
       \/ mdead' = TRUE /\ UNCHANGED dead
    /\ UNCHANGED <<fresh, list, mpc, todo, cur, spray, thr, hpc, inProgress>>

\* The acceptor tells the worker to stop.
Kill ==
    /\ ~mdead
    /\ mdead' = TRUE
    /\ UNCHANGED <<fresh, list, mpc, todo, cur, spray, thr, hpc, inProgress, dead>>

-----------------------------------------------------------------------------
(* handle_sockets_once: run phase.                                         *)

\* The hint socket woke the worker; with sub-proxies there is a pass.  The
\* timers that a pass runs first, when they are due, are StartTimers.
StartPass ==
    /\ mpc = "idle"
    /\ list # {}
    /\ mpc' = "run"
    /\ todo' = list
    /\ spray' = (SprayMin > 0 /\ Cardinality(list) >= SprayMin
                 /\ Cardinality(list) > 1)
    /\ UNCHANGED <<fresh, list, cur, thr, hpc, inProgress, dead, mdead>>

\* The loop body up to the decision: a dead master marks p dead, and p is
\* skipped when it is in progress or dead.
RunSkip(p) ==
    /\ mpc = "run" /\ cur = None /\ p \in todo
    /\ inProgress[p] > 0 \/ dead[p] \/ mdead
    /\ dead' = [dead EXCEPT ![p] = @ \/ mdead]
    /\ todo' = todo \ {p}
    /\ UNCHANGED <<fresh, list, mpc, cur, spray, thr, hpc, inProgress, mdead>>

\* Mutant: the thread is detached, nobody waits for it.
Detached(p) == TRUE

\* thread_finish(thr) of an old thread can only return when it has ended.
Joinable(p) == thr[p] => hpc[p] = "out"

RunSpray(p) ==
    /\ mpc = "run" /\ cur = None /\ p \in todo
    /\ inProgress[p] = 0 /\ ~dead[p] /\ ~mdead
    /\ spray
    /\ Joinable(p)
    /\ thr' = [thr EXCEPT ![p] = TRUE]
    /\ hpc' = [hpc EXCEPT ![p] = "start"]
    /\ todo' = todo \ {p}
    /\ UNCHANGED <<fresh, list, mpc, cur, spray, inProgress, dead, mdead>>

RunInline(p) ==
    /\ mpc = "run" /\ cur = None /\ p \in todo
    /\ inProgress[p] = 0 /\ ~dead[p] /\ ~mdead
    /\ ~spray
    /\ cur' = p
    /\ hpc' = [hpc EXCEPT ![p] = "start"]
    /\ todo' = todo \ {p}
    /\ UNCHANGED <<fresh, list, mpc, spray, thr, inProgress, dead, mdead>>

InlineReturn ==
    /\ mpc = "run" /\ cur # None
    /\ hpc[cur] = "out"
    /\ cur' = None
    /\ UNCHANGED <<fresh, list, mpc, todo, spray, thr, hpc, inProgress, dead, mdead>>

RunDone ==
    /\ mpc = "run" /\ cur = None /\ todo = {}
    /\ mpc' = "clean"
    /\ todo' = list
    /\ UNCHANGED <<fresh, list, cur, spray, thr, hpc, inProgress, dead, mdead>>

-----------------------------------------------------------------------------
(* run_proxy, in p's thread or inline.                                     *)

\* Mutant: fetch_sub instead of fetch_add.
HandlerEnterSub(p) ==
    /\ hpc[p] = "start"
    /\ hpc' = [hpc EXCEPT ![p] = IF inProgress[p] = 0 THEN "inside" ELSE "out"]
    /\ inProgress' = [inProgress EXCEPT ![p] = @ - 1]
    /\ UNCHANGED <<fresh, list, mpc, todo, cur, spray, thr, dead, mdead>>

\* in_progress().fetch_add(1) == 0
HandlerEnter(p) ==
    /\ hpc[p] = "start"
    /\ hpc' = [hpc EXCEPT ![p] = IF inProgress[p] = 0 THEN "inside" ELSE "out"]
    /\ inProgress' = [inProgress EXCEPT ![p] = @ + 1]
    /\ UNCHANGED <<fresh, list, mpc, todo, cur, spray, thr, dead, mdead>>

\* handle_sockets_once of the sub-proxy returns; the sub-proxy may have died.
HandlerReturn(p) ==
    /\ hpc[p] = "inside"
    /\ hpc' = [hpc EXCEPT ![p] = "leave"]
    /\ \E d \in BOOLEAN : dead' = [dead EXCEPT ![p] = @ \/ d]
    /\ UNCHANGED <<fresh, list, mpc, todo, cur, spray, thr, inProgress, mdead>>

\* It throws; both catch clauses only mark the sub-proxy dead.
HandlerThrow(p) ==
    /\ hpc[p] = "inside"
    /\ hpc' = [hpc EXCEPT ![p] = "out"]
    /\ dead' = [dead EXCEPT ![p] = TRUE]
    /\ UNCHANGED <<fresh, list, mpc, todo, cur, spray, thr, inProgress, mdead>>

\* in_progress().store(0)
HandlerLeave(p) ==
    /\ hpc[p] = "leave"
    /\ hpc' = [hpc EXCEPT ![p] = "out"]
    /\ inProgress' = [inProgress EXCEPT ![p] = 0]
    /\ UNCHANGED <<fresh, list, mpc, todo, cur, spray, thr, dead, mdead>>

-----------------------------------------------------------------------------
(* handle_sockets_once: clean-up phase.                                    *)

\* Mutant: the iterator only moves on past a dead sub-proxy.
CleanCheckStays(p) ==
    /\ mpc = "clean" /\ cur = None /\ p \in todo
    /\ inProgress[p] = 0
    /\ cur' = p
    /\ todo' = IF dead[p] THEN todo \ {p} ELSE todo
    /\ UNCHANGED <<fresh, list, mpc, spray, thr, hpc, inProgress, dead, mdead>>

\* "assert in_progress state": the loop spins on p while it is in progress.
CleanCheck(p) ==
    /\ mpc = "clean" /\ cur = None /\ p \in todo
    /\ inProgress[p] = 0
    /\ cur' = p
    /\ todo' = todo \ {p}
    /\ UNCHANGED <<fresh, list, mpc, spray, thr, hpc, inProgress, dead, mdead>>

\* Mutant: the clean-up phase does not join.
CleanNoJoin ==
    /\ mpc = "clean" /\ cur # None
    /\ list' = IF dead[cur] THEN list \ {cur} ELSE list
    /\ cur' = None
    /\ UNCHANGED <<fresh, mpc, todo, spray, thr, hpc, inProgress, dead, mdead>>

\* thread_finish(thr), and erase the entry of a dead sub-proxy.
CleanFinish ==
    /\ mpc = "clean" /\ cur # None
    /\ Joinable(cur)
    /\ thr' = [thr EXCEPT ![cur] = FALSE]
    /\ list' = IF dead[cur] THEN list \ {cur} ELSE list
    /\ cur' = None
    /\ UNCHANGED <<fresh, mpc, todo, spray, hpc, inProgress, dead, mdead>>

CleanDone ==
    /\ mpc = "clean" /\ cur = None /\ todo = {}
    /\ mpc' = "idle"
    /\ UNCHANGED <<fresh, list, todo, cur, spray, thr, hpc, inProgress, dead, mdead>>

-----------------------------------------------------------------------------
(* run_timers and the end of the worker.                                   *)

StartTimers ==
    /\ mpc = "idle" /\ list # {}
    /\ mpc' = "timers"
    /\ todo' = list
    /\ UNCHANGED <<fresh, list, cur, spray, thr, hpc, inProgress, dead, mdead>>

\* Mutant: the timers leave dead sub-proxies to the next pass.
TimersVisitLeaves(p) ==
    /\ mpc = "timers" /\ p \in todo
    /\ \E d \in BOOLEAN : dead' = [dead EXCEPT ![p] = @ \/ d]
    /\ todo' = todo \ {p}
    /\ UNCHANGED <<fresh, list, mpc, cur, spray, thr, hpc, inProgress, mdead>>

\* A dead sub-proxy that is not in progress is joined and erased under
\* proxies_lock_; another one runs its timers, which may end it.
TimersVisit(p) ==
    /\ mpc = "timers" /\ p \in todo
    /\ IF dead[p] /\ inProgress[p] = 0
       THEN /\ Joinable(p)
            /\ thr' = [thr EXCEPT ![p] = FALSE]
            /\ list' = list \ {p}
            /\ UNCHANGED dead
       ELSE /\ \E d \in BOOLEAN : dead' = [dead EXCEPT ![p] = @ \/ d]
            /\ UNCHANGED <<thr, list>>
    /\ todo' = todo \ {p}
    /\ UNCHANGED <<fresh, mpc, cur, spray, hpc, inProgress, mdead>>

TimersDone ==
    /\ mpc = "timers" /\ todo = {}
    /\ mpc' = "idle"
    /\ UNCHANGED <<fresh, list, todo, cur, spray, thr, hpc, inProgress, dead, mdead>>

\* shutdown(): join every thread, shut every sub-proxy down, clear the list.
Shutdown ==
    /\ mpc = "idle" /\ mdead
    /\ \A p \in list : Joinable(p)
    /\ mpc' = "ended"
    /\ thr' = [p \in Proxies |-> IF p \in list THEN FALSE ELSE thr[p]]
    /\ list' = {}
    /\ UNCHANGED <<fresh, todo, cur, spray, hpc, inProgress, dead, mdead>>

-----------------------------------------------------------------------------
MasterNext ==
    \/ \E p \in Proxies :
          \/ RunSkip(p) \/ RunSpray(p) \/ RunInline(p)
          \/ CleanCheck(p) \/ TimersVisit(p)
    \/ InlineReturn \/ RunDone \/ CleanFinish \/ CleanDone
    \/ StartTimers \/ TimersDone \/ Shutdown

HandlerNext(p) ==
    HandlerEnter(p) \/ HandlerReturn(p) \/ HandlerThrow(p) \/ HandlerLeave(p)

Next ==
    \/ \E p \in Proxies : AddProxy(p) \/ PollHandle(p)
    \/ Kill
    \/ StartPass
    \/ MasterNext
    \/ \E p \in Proxies : HandlerNext(p)

\* The worker thread and every handler thread keep running.  run_poll calls
\* run_timers after every sweep over its sets, so timer runs recur however
\* many passes the hints start in between.  Nothing is assumed about events,
\* hints or a stop request.
Fairness ==
    /\ WF_vars(MasterNext)
    /\ SF_vars(StartTimers)
    /\ \A p \in Proxies : WF_vars(HandlerNext(p))

Spec == Init /\ [][Next]_vars /\ Fairness

-----------------------------------------------------------------------------
(* Properties.                                                             *)

\* The type invariant of the worker, its sub-proxies and their threads.
TypeOK ==
    /\ fresh \in SUBSET Proxies
    /\ list \in SUBSET Proxies
    /\ mpc \in {"idle", "run", "clean", "timers", "ended"}
    /\ todo \in SUBSET Proxies
    /\ cur \in Proxies \cup {None}
    /\ spray \in BOOLEAN
    /\ thr \in [Proxies -> BOOLEAN]
    /\ hpc \in [Proxies -> {"out", "start", "inside", "leave"}]
    /\ inProgress \in [Proxies -> Nat]
    /\ dead \in [Proxies -> BOOLEAN]
    /\ mdead \in BOOLEAN

\* A sub-proxy whose handler is running, or about to run in a thread, is
\* still in the list, and so is one whose thread has not been joined: nothing
\* is destroyed under a running handler, and no entry is erased with a
\* joinable thread, whose destructor would end the process.
NoUseAfterErase == \A p \in Proxies : hpc[p] # "out" \/ thr[p] => p \in list

\* The worker touches a sub-proxy outside of a pass (poll events, timers,
\* shutdown) only when no thread is inside of it, although those paths never
\* look at in_progress: every pass has joined what it started.
QuietOutsidePass ==
    mpc \in {"idle", "timers", "ended"} =>
        \A p \in Proxies : hpc[p] = "out" /\ ~thr[p]

-----------------------------------------------------------------------------
(* The inductive invariant behind the two properties above.                *)

\* Loops and waits concern listed sub-proxies.
LoopsInList ==
    /\ todo \subseteq list
    /\ mpc \in {"idle", "ended"} => todo = {}
    /\ cur # None => (cur \in list \ todo /\ mpc \in {"run", "clean"})

\* A handler under way belongs to a thread of a listed entry, or to the
\* inline call that the worker waits for.
HandlersOwned ==
    \A p \in Proxies :
        /\ hpc[p] # "out" => (thr[p] \/ (mpc = "run" /\ cur = p))
        /\ thr[p] => (p \in list /\ mpc \in {"run", "clean"})
        /\ (thr[p] /\ mpc = "clean") => p \in todo \cup {cur}

\* in_progress follows the handler, except that a throw leaves it at 1.
CounterFollows ==
    \A p \in Proxies :
        /\ hpc[p] = "start" => inProgress[p] = 0
        /\ hpc[p] \in {"inside", "leave"} => inProgress[p] = 1
        /\ inProgress[p] <= 1

IndInv == TypeOK /\ LoopsInList /\ HandlersOwned /\ CounterFollows

-----------------------------------------------------------------------------
(* Liveness.                                                               *)

\* An exception has left a sub-proxy's counter up.
Leaked == \E p \in Proxies : hpc[p] = "out" /\ inProgress[p] > 0

\* A pass or a timer run that was started comes to its end, unless an
\* exception left an in_progress counter up.
PassEnds ==
    mpc \in {"run", "clean", "timers"} ~> (mpc \in {"idle", "ended"} \/ Leaked)

\* A sub-proxy that is dead is taken off the list, by a pass, by the timers
\* or by the worker's end, unless an exception left a counter up.
DeadIsReaped ==
    \A p \in Proxies : (p \in list /\ dead[p]) ~> (p \notin list \/ Leaked)

\* The same after an exception too: run_proxy marks a sub-proxy that throws
\* dead so that the clean-up phase may drop it.
ThrowerIsReaped ==
    \A p \in Proxies : (p \in list /\ dead[p]) ~> p \notin list

=============================================================================
