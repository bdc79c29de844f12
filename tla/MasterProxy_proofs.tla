-------------------------- MODULE MasterProxy_proofs --------------------------
(***************************************************************************)
(* Proofs about MasterProxy, for any set of sub-proxies and any spray      *)
(* threshold, with handlers that may throw.                                *)
(***************************************************************************)
EXTENDS MasterProxy, TLAPS

\* The initial states satisfy the invariant.
LEMMA InitIndInv == Init => IndInv
<1> SUFFICES ASSUME Init PROVE IndInv
  OBVIOUS
<1>1. TypeOK
  BY DEF Init, TypeOK
<1>2. LoopsInList /\ HandlersOwned /\ CounterFollows
  BY DEF Init, LoopsInList, HandlersOwned, CounterFollows
<1> QED
  BY <1>1, <1>2 DEF IndInv

\* Every step of the worker and of the handlers keeps the invariant.
LEMMA NextIndInv == IndInv /\ [Next]_vars => IndInv'
<1> SUFFICES ASSUME IndInv, [Next]_vars PROVE IndInv'
  OBVIOUS
<1> USE NoneAssumption
<1> USE DEF IndInv, TypeOK, LoopsInList, HandlersOwned, CounterFollows
<1>1. ASSUME NEW p \in Proxies, AddProxy(p) PROVE IndInv'
  BY <1>1 DEF AddProxy
<1>2. ASSUME NEW p \in Proxies, PollHandle(p) PROVE IndInv'
  BY <1>2 DEF PollHandle
<1>3. ASSUME NEW p \in Proxies, RunSkip(p) PROVE IndInv'
  BY <1>3 DEF RunSkip
<1>4. ASSUME NEW p \in Proxies, RunSpray(p) PROVE IndInv'
  BY <1>4 DEF RunSpray, Joinable
<1>5. ASSUME NEW p \in Proxies, RunInline(p) PROVE IndInv'
  BY <1>5 DEF RunInline
<1>6. ASSUME NEW p \in Proxies, HandlerEnter(p) PROVE IndInv'
  BY <1>6 DEF HandlerEnter
<1>7. ASSUME NEW p \in Proxies, HandlerReturn(p) PROVE IndInv'
  BY <1>7 DEF HandlerReturn
<1>8. ASSUME NEW p \in Proxies, HandlerThrow(p) PROVE IndInv'
  BY <1>8 DEF HandlerThrow
<1>9. ASSUME NEW p \in Proxies, HandlerLeave(p) PROVE IndInv'
  BY <1>9 DEF HandlerLeave
<1>10. ASSUME NEW p \in Proxies, CleanCheck(p) PROVE IndInv'
  BY <1>10 DEF CleanCheck
<1>11. ASSUME NEW p \in Proxies, TimersVisit(p) PROVE IndInv'
  <2>1. CASE dead[p] /\ inProgress[p] = 0
    BY <1>11, <2>1 DEF TimersVisit, Joinable
  <2>2. CASE ~(dead[p] /\ inProgress[p] = 0)
    <3>1. PICK d \in BOOLEAN : dead' = [dead EXCEPT ![p] = @ \/ d]
      BY <1>11, <2>2 DEF TimersVisit
    <3>2. dead' \in [Proxies -> BOOLEAN]
      BY <3>1
    <3> QED
      BY <1>11, <2>2, <3>2 DEF TimersVisit
  <2> QED
    BY <2>1, <2>2
<1>12. CASE Kill
  BY <1>12 DEF Kill
<1>13. CASE StartPass
  BY <1>13 DEF StartPass
<1>14. CASE InlineReturn
  BY <1>14 DEF InlineReturn
<1>15. CASE RunDone
  BY <1>15 DEF RunDone
<1>16. CASE CleanFinish
  BY <1>16 DEF CleanFinish, Joinable
<1>17. CASE CleanDone
  BY <1>17 DEF CleanDone
<1>18. CASE StartTimers
  BY <1>18 DEF StartTimers
<1>19. CASE TimersDone
  BY <1>19 DEF TimersDone
<1>20. CASE Shutdown
  BY <1>20 DEF Shutdown, Joinable
<1>21. CASE UNCHANGED vars
  BY <1>21 DEF vars
<1> QED
  BY <1>1, <1>2, <1>3, <1>4, <1>5, <1>6, <1>7, <1>8, <1>9, <1>10, <1>11,
     <1>12, <1>13, <1>14, <1>15, <1>16, <1>17, <1>18, <1>19, <1>20,
     <1>21
     DEF Next, MasterNext, HandlerNext

\* The invariant holds in every reachable state.
LEMMA IndInvHolds == Spec => []IndInv
BY InitIndInv, NextIndInv, PTL DEF Spec

\* The worker, its list and its threads keep their types.
THEOREM TypeCorrect == Spec => []TypeOK
<1>1. IndInv => TypeOK
  BY DEF IndInv
<1> QED
  BY <1>1, IndInvHolds, PTL

\* No sub-proxy is destroyed while its handler runs, nor with a joinable thread.
THEOREM SafeErase == Spec => []NoUseAfterErase
<1>1. IndInv => NoUseAfterErase
  BY NoneAssumption DEF IndInv, TypeOK, LoopsInList, HandlersOwned, NoUseAfterErase
<1> QED
  BY <1>1, IndInvHolds, PTL

\* Poll events, timers and shutdown never meet a running handler thread.
THEOREM QuietOutside == Spec => []QuietOutsidePass
<1>1. IndInv => QuietOutsidePass
  BY NoneAssumption DEF IndInv, TypeOK, LoopsInList, HandlersOwned, QuietOutsidePass
<1> QED
  BY <1>1, IndInvHolds, PTL

=============================================================================
