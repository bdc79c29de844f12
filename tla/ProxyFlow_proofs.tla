--------------------------- MODULE ProxyFlow_proofs ---------------------------
(* Proofs about ProxyFlow: for any buffer sizes and any number of sockets;  *)
(* StreamIntact and BufferBounded for one socket a side.                   *)
EXTENDS ProxyFlow, SequenceTheorems, TLAPS

\* The sockets of the two sides, and what Other and Size are.
LEMMA SideFacts ==
    /\ \A side \in Sides : Other(side) \in Sides /\ Other(side) # side
                           /\ Other(Other(side)) = side
    /\ \A side \in Sides : SocketsOf(side) \subseteq Sockets
    /\ \A s \in Sockets : s[1] \in Sides /\ s \in SocketsOf(s[1])
    /\ \A side \in Sides : \A s \in SocketsOf(side) : s[1] = side
    /\ \A side \in Sides : Size(side) \in Nat \ {0}
BY SidesAssumption DEF Sides, Other, SocketsOf, Sockets, Size

\* Each loop of a pass is over one of the two sides.
LEMMA LoopFacts ==
    /\ Len(Loops) = 4
    /\ \A i \in 1 .. 4 : Loops[i][2] \in Sides
BY DEF Loops, Sides

\* Both ways to leave an iteration keep the position in the pass in range.
LEMMA PassPosition ==
    ASSUME loop \in 1 .. 4, pos \in Nat \ {0}, Proceed \/ Break
    PROVE  loop' \in 1 .. 5 /\ pos' \in Nat \ {0}
BY LoopFacts, SideFacts DEF Proceed, Break

\* A step at a socket happens in one of the four loops.
LEMMA CurrentFacts ==
    ASSUME NEW op, NEW s, loop \in 1 .. 5, Current(op, s)
    PROVE  loop \in 1 .. 4
BY LoopFacts DEF Current

\* Both halves of a sequence that is cut keep its type; the second is not
\* empty when the cut is inside.
LEMMA Cut ==
    ASSUME NEW T, NEW q \in Seq(T), NEW n \in 0 .. Len(q)
    PROVE  /\ SubSeq(q, 1, n) \in Seq(T) /\ Len(SubSeq(q, 1, n)) = n
           /\ SubSeq(q, n + 1, Len(q)) \in Seq(T)
           /\ Len(SubSeq(q, n + 1, Len(q))) = Len(q) - n
BY SubSeqProperties

\* A concatenation with a sequence that is not empty is not empty.
LEMMA Grows ==
    ASSUME NEW T, NEW q \in Seq(T), NEW b \in Seq(T)
    PROVE  /\ q \o b \in Seq(T)
           /\ Len(q \o b) = Len(q) + Len(b)
           /\ q # <<>> => q \o b # <<>>
<1>1. q \o b \in Seq(T) /\ Len(q \o b) = Len(q) + Len(b)
  BY ConcatProperties
<1>2. q # <<>> => Len(q) > 0
  BY EmptySeq, LenProperties
<1>3. Len(b) >= 0
  BY LenProperties
<1> QED BY <1>1, <1>2, <1>3, EmptySeq

\* The initial states satisfy the invariant.
LEMMA InitIndInv == Init => IndInv
<1> SUFFICES ASSUME Init PROVE IndInv
  OBVIOUS
<1>1. TypeOK
  BY SidesAssumption, SizesAssumption, EmptySeq DEF Init, TypeOK, Sides
<1>2. TxBounded
  BY SizesAssumption, EmptySeq DEF Init, TxBounded
<1>3. NoStaleNeck
  BY SideFacts DEF Init, NoStaleNeck
<1> QED BY <1>1, <1>2, <1>3 DEF IndInv

\* The remote ends change neither contexts nor monitors.
LEMMA NetworkKeeps ==
    ASSUME IndInv, NEW s \in Sockets, PeerSend(s) \/ PeerRecv(s) \/ PeerClose(s)
    PROVE  IndInv'
<1>1. CASE PeerSend(s)
  <2> USE <1>1
  <2>1. sent[s] + 1 \in 1 .. MaxSent
    BY SizesAssumption DEF IndInv, TypeOK, PeerSend
  <2>2. <<s, sent[s] + 1>> \in Bytes
    BY <2>1 DEF Bytes
  <2>3. Append(rx[s], <<s, sent[s] + 1>>) \in Seq(Bytes)
    BY <2>2, AppendProperties DEF IndInv, TypeOK
  <2>4. TypeOK'
    BY <2>1, <2>3, SizesAssumption
       DEF IndInv, TypeOK, PeerSend, cxVars, pollVars, loopVars, passVars
  <2> QED BY <2>4 DEF IndInv, TxBounded, NoStaleNeck, PeerSend, cxVars
<1>2. CASE PeerRecv(s)
  <2> USE <1>2
  <2>1. /\ Head(tx[s]) \in Bytes /\ Tail(tx[s]) \in Seq(Bytes)
        /\ Len(Tail(tx[s])) = Len(tx[s]) - 1
    BY HeadTailProperties DEF IndInv, TypeOK, PeerRecv
  <2>2. Append(got[s], Head(tx[s])) \in Seq(Bytes)
    BY <2>1, AppendProperties DEF IndInv, TypeOK
  <2>3. TypeOK'
    BY <2>1, <2>2
       DEF IndInv, TypeOK, PeerRecv, cxVars, pollVars, loopVars, passVars
  <2>4. TxBounded'
    BY <2>1, SizesAssumption, LenProperties
       DEF IndInv, TypeOK, TxBounded, PeerRecv
  <2> QED BY <2>3, <2>4 DEF IndInv, NoStaleNeck, PeerRecv, cxVars
<1>3. CASE PeerClose(s)
  BY <1>3 DEF IndInv, TypeOK, TxBounded, NoStaleNeck, PeerClose, cxVars,
              pollVars, loopVars, passVars
<1> QED BY <1>1, <1>2, <1>3

\* The poll loop changes neither buffers nor bottlenecks.
LEMMA PollKeeps ==
    ASSUME IndInv,
           \/ Rescan \/ EndPass \/ Poll(TRUE) \/ Poll(FALSE)
           \/ \E s \in Sockets \cup {Hint} : StartPass(s)
           \/ \E s \in Sockets : NullHandler(s)
    PROVE  IndInv'
<1>1. CASE Rescan
  BY <1>1 DEF IndInv, TypeOK, TxBounded, NoStaleNeck, Rescan, netVars, cxVars,
              loopVars, passVars
<1>2. CASE EndPass
  BY <1>2 DEF IndInv, TypeOK, TxBounded, NoStaleNeck, EndPass, LoopPc, netVars,
              cxVars, pollVars, passVars
<1>3. CASE Poll(TRUE) \/ Poll(FALSE)
  <2>1. PICK hinted \in BOOLEAN : Poll(hinted)
    BY <1>3
  <2>2. /\ inSet' \in SUBSET (Sockets \cup {Hint}) /\ outSet' \in SUBSET Sockets
        /\ mon' = [s \in Sockets |-> IF s \in outSet' THEN {"in"} ELSE mon[s]]
    BY <2>1 DEF Poll, ReadySets
  <2>3. mon' \in [Sockets -> SUBSET {"in", "out"}]
    BY <2>2 DEF IndInv, TypeOK
  <2>4. TypeOK'
    BY <2>1, <2>2, <2>3 DEF IndInv, TypeOK, Poll, netVars, cxVars, passVars
  <2> QED BY <2>1, <2>4 DEF IndInv, TxBounded, NoStaleNeck, Poll, netVars, cxVars
<1>4. CASE \E s \in Sockets \cup {Hint} : StartPass(s)
  <2>1. PICK s \in Sockets \cup {Hint} : StartPass(s)
    BY <1>4
  <2>2. TypeOK'
    BY <2>1 DEF IndInv, TypeOK, StartPass, netVars, cxVars, pollVars
  <2> QED BY <2>1, <2>2 DEF IndInv, TxBounded, NoStaleNeck, StartPass, netVars,
                             cxVars
<1>5. CASE \E s \in Sockets : NullHandler(s)
  <2>1. PICK s \in Sockets : NullHandler(s)
    BY <1>5
  <2>2. TypeOK'
    BY <2>1 DEF IndInv, TypeOK, NullHandler, LoopPc, netVars, cxVars, passVars
  <2> QED BY <2>1, <2>2 DEF IndInv, TxBounded, NoStaleNeck, NullHandler,
                             netVars, cxVars
<1> QED BY <1>1, <1>2, <1>3, <1>4, <1>5

\* Skipping a socket, deferring its read, finding nothing to read or to
\* write, or closing it can only end its own waiting.
LEMMA IdleKeeps ==
    ASSUME IndInv, NEW s \in Sockets,
           \/ SkipClosed("read", s) \/ SkipClosed("write", s)
           \/ ReadSkip(s) \/ ReadDefer(s) \/ ReadNothing(s)
           \/ WriteNothing(s) \/ WriteError(s)
    PROVE  IndInv'
<1> USE DEF netVars, cxVars, pollVars, loopVars
<1>1. loop' \in 1 .. 5 /\ pos' \in Nat \ {0}
  BY PassPosition, CurrentFacts
     DEF IndInv, TypeOK, SkipClosed, ReadSkip, ReadDefer, ReadNothing, MayRead,
         WriteNothing, WriteError
<1>2. TypeOK'
  BY <1>1 DEF IndInv, TypeOK, SkipClosed, ReadSkip, ReadDefer, RescanRead,
              ReadNothing, CloseCx, WriteNothing, WriteError, StillPaused
<1>3. \A t \in Sockets : paused'[t] => paused[t]
  BY DEF IndInv, TypeOK, SkipClosed, ReadSkip, ReadDefer, ReadNothing,
         WriteNothing, WriteError, StillPaused
<1>4. UNCHANGED <<tx, wbuf, neck>>
  BY DEF SkipClosed, ReadSkip, ReadDefer, ReadNothing, WriteNothing, WriteError
<1> QED BY <1>2, <1>3, <1>4 DEF IndInv, TxBounded, NoStaleNeck

\* Bytes that are read only make write buffers longer.
LEMMA ReadKeeps ==
    ASSUME IndInv, NEW s \in Sockets, ReadBytes(s)
    PROVE  IndInv'
<1> USE DEF loopVars
<1>1. loop' \in 1 .. 5 /\ pos' \in Nat \ {0}
  BY PassPosition, CurrentFacts DEF IndInv, TypeOK, ReadBytes, MayRead
<1> DEFINE n == IF Len(rx[s]) < ReadMax THEN Len(rx[s]) ELSE ReadMax
           b == SubSeq(rx[s], 1, n)
<1>2. n \in 0 .. Len(rx[s])
  BY SizesAssumption, LenProperties DEF IndInv, TypeOK
<1>3. b \in Seq(Bytes) /\ SubSeq(rx[s], n + 1, Len(rx[s])) \in Seq(Bytes)
  BY <1>2, Cut DEF IndInv, TypeOK
<1>4. /\ wbuf' = CopyTo(b, Other(s[1]))
      /\ rx' = [rx EXCEPT ![s] = SubSeq(@, n + 1, Len(@))]
  BY DEF ReadBytes, OnBytes
<1>5. \A t \in Sockets : wbuf[t] # <<>> => wbuf'[t] # <<>>
  <2> HIDE DEF b, n
  <2> TAKE t \in Sockets
  <2>1. wbuf[t] \in Seq(Bytes)
    BY DEF IndInv, TypeOK
  <2>2. wbuf'[t] = wbuf[t] \o b \/ wbuf'[t] = wbuf[t]
    BY <1>4 DEF CopyTo
  <2> QED BY <1>3, <2>1, <2>2, Grows
<1>6. wbuf' \in [Sockets -> Seq(Bytes)]
  <2> HIDE DEF b, n
  <2>1. \A t \in Sockets :
          (IF /\ t[1] = Other(s[1])
              /\ \A i \in 1 .. t[2] - 1 : ~Swaps(<<Other(s[1]), i>>)
           THEN wbuf[t] \o b ELSE wbuf[t]) \in Seq(Bytes)
    BY <1>3, Grows DEF IndInv, TypeOK
  <2> QED BY <2>1, <1>4 DEF CopyTo
<1>7. rx' \in [Sockets -> Seq(Bytes)]
  <2> HIDE DEF n
  <2> QED BY <1>3, <1>4 DEF IndInv, TypeOK
<1>8. TypeOK'
  BY <1>1, <1>6, <1>7 DEF IndInv, TypeOK, ReadBytes, OnBytes, WatchWriters
<1>9. \A t \in Sockets : paused'[t] => paused[t]
  BY DEF IndInv, TypeOK, ReadBytes
<1>10. UNCHANGED <<tx, neck>>
  BY DEF ReadBytes
<1>11. \A side \in Sides : SocketsOf(side) \subseteq Sockets
  BY SideFacts
<1>12. \A t \in Sockets : paused'[t] => neck'[Other(t[1])]
  BY <1>9, <1>10 DEF IndInv, NoStaleNeck
<1>13. ASSUME NEW side \in Sides, neck'[side]
       PROVE  \E t \in SocketsOf(side) : wbuf'[t] # <<>>
  <2>1. PICK t \in SocketsOf(side) : wbuf[t] # <<>>
    BY <1>10, <1>13 DEF IndInv, NoStaleNeck
  <2>2. t \in Sockets
    BY <1>11
  <2>3. wbuf'[t] # <<>>
    BY <2>1, <2>2, <1>5
  <2> QED BY <2>3
<1>14. NoStaleNeck'
  BY <1>12, <1>13 DEF NoStaleNeck
<1> QED BY <1>8, <1>10, <1>14 DEF IndInv, TxBounded

\* A send that leaves nothing out: what the two buffers hold afterwards.
LEMMA SendFacts ==
    ASSUME TypeOK, NEW s \in Sockets, NEW n \in 0 .. Len(wbuf[s]), Send(s, n)
    PROVE  /\ tx' \in [Sockets -> Seq(Bytes)] /\ wbuf' \in [Sockets -> Seq(Bytes)]
           /\ Len(tx'[s]) = Len(tx[s]) + n
           /\ Len(wbuf'[s]) = Len(wbuf[s]) - n
           /\ \A t \in Sockets : t # s => tx'[t] = tx[t] /\ wbuf'[t] = wbuf[t]
<1>1. wbuf[s] \in Seq(Bytes) /\ tx[s] \in Seq(Bytes)
  BY DEF TypeOK
<1>2. /\ SubSeq(wbuf[s], 1, n) \in Seq(Bytes) /\ Len(SubSeq(wbuf[s], 1, n)) = n
      /\ SubSeq(wbuf[s], n + 1, Len(wbuf[s])) \in Seq(Bytes)
      /\ Len(SubSeq(wbuf[s], n + 1, Len(wbuf[s]))) = Len(wbuf[s]) - n
  BY <1>1, Cut
<1>3. /\ tx[s] \o SubSeq(wbuf[s], 1, n) \in Seq(Bytes)
      /\ Len(tx[s] \o SubSeq(wbuf[s], 1, n)) = Len(tx[s]) + n
  BY <1>1, <1>2, Grows
<1> QED BY <1>2, <1>3 DEF TypeOK, Send

\* A partial write makes the bottleneck and leaves bytes behind it.
LEMMA WritePartKeeps ==
    ASSUME IndInv, NEW s \in Sockets, WritePart(s)
    PROVE  IndInv'
<1>1. loop' \in 1 .. 5 /\ pos' \in Nat \ {0}
  BY PassPosition, CurrentFacts DEF IndInv, TypeOK, WritePart
<1>2. Room(s) \in 0 .. Len(wbuf[s]) /\ Room(s) < Len(wbuf[s])
      /\ Len(tx[s]) + Room(s) = KernelCap
  <2>1. Len(tx[s]) \in Nat /\ Len(wbuf[s]) \in Nat /\ Len(tx[s]) <= KernelCap
    BY LenProperties DEF IndInv, TypeOK, TxBounded
  <2> QED BY <2>1, SizesAssumption DEF WritePart, Room
<1>3. /\ tx' \in [Sockets -> Seq(Bytes)] /\ wbuf' \in [Sockets -> Seq(Bytes)]
      /\ Len(tx'[s]) = Len(tx[s]) + Room(s)
      /\ Len(wbuf'[s]) = Len(wbuf[s]) - Room(s)
      /\ \A t \in Sockets : t # s => tx'[t] = tx[t] /\ wbuf'[t] = wbuf[t]
  BY <1>2, SendFacts DEF IndInv, WritePart
<1>4. s[1] \in Sides /\ s \in SocketsOf(s[1])
  BY SideFacts
<1>5. TypeOK'
  BY <1>1, <1>3, <1>4 DEF IndInv, TypeOK, WritePart, Bottleneck, CancelRescans,
                               loopVars
<1>6. TxBounded'
  <2>1. \A t \in Sockets : Len(tx'[t]) <= KernelCap
    <3> TAKE t \in Sockets
    <3>1. CASE t = s
      <4>1. Len(tx'[s]) = KernelCap
        BY <1>2, <1>3
      <4> QED BY <3>1, <4>1, SizesAssumption
    <3>2. CASE t # s
      BY <3>2, <1>3 DEF IndInv, TxBounded
    <3> QED BY <3>1, <3>2
  <2> QED BY <2>1 DEF TxBounded
<1>7. wbuf'[s] # <<>>
  <2>1. Len(wbuf[s]) \in Nat
    BY LenProperties DEF IndInv, TypeOK
  <2> QED BY <1>2, <1>3, <2>1, EmptySeq
<1>8. /\ neck' = [neck EXCEPT ![s[1]] = TRUE]
      /\ \A t \in Sockets : paused'[t] <=> t[1] # s[1]
  BY DEF WritePart, Bottleneck
<1>9. ASSUME NEW t \in Sockets, paused'[t]
      PROVE  neck'[Other(t[1])]
  <2>1. t[1] # s[1] /\ t[1] \in Sides
    BY <1>8, <1>9, SideFacts
  <2>2. Other(t[1]) = s[1]
    BY <2>1, <1>4 DEF Sides, Other
  <2> QED BY <2>2, <1>4, <1>8 DEF IndInv, TypeOK
<1>10. ASSUME NEW side \in Sides, neck'[side]
       PROVE  \E t \in SocketsOf(side) : wbuf'[t] # <<>>
  <2>1. CASE side = s[1]
    BY <2>1, <1>4, <1>7
  <2>2. CASE side # s[1]
    <3>1. neck[side]
      BY <2>2, <1>8, <1>10 DEF IndInv, TypeOK
    <3>2. PICK t \in SocketsOf(side) : wbuf[t] # <<>>
      BY <3>1 DEF IndInv, NoStaleNeck
    <3>3. t \in Sockets /\ t # s
      BY <2>2, SideFacts
    <3> QED BY <3>2, <3>3, <1>3
  <2> QED BY <2>1, <2>2
<1> QED BY <1>5, <1>6, <1>9, <1>10 DEF IndInv, NoStaleNeck

\* A complete write ends the bottleneck and everybody's wait for it.
LEMMA WriteAllKeeps ==
    ASSUME IndInv, NEW s \in Sockets, WriteAll(s)
    PROVE  IndInv'
<1>1. loop' \in 1 .. 5 /\ pos' \in Nat \ {0}
  BY PassPosition, CurrentFacts DEF IndInv, TypeOK, WriteAll
<1>2. /\ Len(wbuf[s]) \in 0 .. Len(wbuf[s])
      /\ Len(tx[s]) + Len(wbuf[s]) <= KernelCap
  <2>1. Len(tx[s]) \in Nat /\ Len(wbuf[s]) \in Nat
    BY LenProperties DEF IndInv, TypeOK
  <2>2. Len(wbuf[s]) <= KernelCap - Len(tx[s])
    BY DEF WriteAll, Room
  <2>3. \A a, b \in Nat : b <= KernelCap - a => (b \in 0 .. b /\ a + b <= KernelCap)
    BY SizesAssumption
  <2> QED BY <2>1, <2>2, <2>3
<1>3. /\ tx' \in [Sockets -> Seq(Bytes)] /\ wbuf' \in [Sockets -> Seq(Bytes)]
      /\ Len(tx'[s]) = Len(tx[s]) + Len(wbuf[s])
      /\ \A t \in Sockets : t # s => tx'[t] = tx[t] /\ wbuf'[t] = wbuf[t]
  BY <1>2, SendFacts DEF IndInv, WriteAll
<1>4. s[1] \in Sides
  BY SideFacts
<1>5. TypeOK'
  BY <1>1, <1>3, <1>4 DEF IndInv, TypeOK, WriteAll, Resume, loopVars
<1>6. TxBounded'
  <2>1. \A t \in Sockets : Len(tx'[t]) <= KernelCap
    BY <1>2, <1>3 DEF IndInv, TxBounded
  <2> QED BY <2>1 DEF TxBounded
<1>7. /\ neck' = [neck EXCEPT ![s[1]] = FALSE]
      /\ paused' = [t \in Sockets |->
                      IF t[1] # s[1] /\ neck[s[1]] THEN FALSE ELSE paused[t]]
  BY DEF WriteAll, Resume
<1>8. ASSUME NEW t \in Sockets, paused'[t]
      PROVE  neck'[Other(t[1])]
  <2>1. paused[t] /\ (t[1] = s[1] \/ ~neck[s[1]])
    BY <1>7, <1>8 DEF IndInv, TypeOK
  <2>2. neck[Other(t[1])] /\ Other(t[1]) \in Sides /\ Other(t[1]) # t[1]
    BY <2>1, SideFacts DEF IndInv, NoStaleNeck
  <2>3. Other(t[1]) # s[1]
    BY <2>1, <2>2
  <2> QED BY <2>2, <2>3, <1>7 DEF IndInv, TypeOK
<1>9. ASSUME NEW side \in Sides, neck'[side]
      PROVE  \E t \in SocketsOf(side) : wbuf'[t] # <<>>
  <2>1. side # s[1] /\ neck[side]
    BY <1>7, <1>9, <1>4 DEF IndInv, TypeOK
  <2>2. PICK t \in SocketsOf(side) : wbuf[t] # <<>>
    BY <2>1 DEF IndInv, NoStaleNeck
  <2>3. t \in Sockets /\ t # s
    BY <2>1, SideFacts
  <2> QED BY <2>2, <2>3, <1>3
<1> QED BY <1>5, <1>6, <1>8, <1>9 DEF IndInv, NoStaleNeck

\* Every step keeps the invariant.
LEMMA NextIndInv == IndInv /\ [Next]_vars => IndInv'
<1> SUFFICES ASSUME IndInv, [Next]_vars PROVE IndInv'
  OBVIOUS
<1>1. CASE ProxyNext
  BY <1>1, PollKeeps, IdleKeeps, ReadKeeps, WritePartKeeps, WriteAllKeeps
     DEF ProxyNext
<1>2. CASE Poll(TRUE)
  BY <1>2, PollKeeps
<1>3. CASE \E s \in Sockets : PeerSend(s) \/ PeerRecv(s) \/ PeerClose(s)
  BY <1>3, NetworkKeeps
<1>4. CASE UNCHANGED vars
  BY <1>4 DEF IndInv, TypeOK, TxBounded, NoStaleNeck, vars, netVars, cxVars,
              pollVars, loopVars, passVars
<1> QED BY <1>1, <1>2, <1>3, <1>4 DEF Next

\* The invariant holds in every reachable state.
LEMMA IndInvHolds == Spec => []IndInv
BY InitIndInv, NextIndInv, PTL DEF Spec

\* Type correctness of the network, the contexts, the poller and the loop of
\* baseProxy for any number of sockets and any sizes of buffers.
THEOREM TypeCorrect == Spec => []TypeOK
<1>1. IndInv => TypeOK
  BY DEF IndInv
<1> QED BY <1>1, IndInvHolds, PTL

\* handle_cx_write_once never leaves a side paused without a bottleneck, nor
\* a bottleneck without pending bytes, with any number of sockets a side.
THEOREM NeverStale == Spec => []NoStaleNeck
<1>1. IndInv => NoStaleNeck
  BY DEF IndInv
<1> QED BY <1>1, IndInvHolds, PTL

-----------------------------------------------------------------------------
(* ReadersWatched.                                                         *)

\* Every step keeps who may be read in epoll or in a rescan set.
LEMMA WatchedKept ==
    ASSUME IndInv, Watched, Next
    PROVE  Watched'
<1> USE DEF netVars, cxVars, pollVars, loopVars, passVars
<1>0. /\ mon \in [Sockets -> SUBSET {"in", "out"}] /\ closed \in [Sockets -> BOOLEAN]
      /\ neck \in [Sides -> BOOLEAN] /\ rescanIn \subseteq Sockets /\ rescanOut \subseteq Sockets
  BY DEF IndInv, TypeOK
<1>1. CASE UNCHANGED <<mon, closed, neck, rescanIn, rescanOut>>
  BY <1>1 DEF Watched
<1>2. CASE Rescan
  BY <1>0, <1>2 DEF Watched, Rescan
<1>3. ASSUME NEW s \in Sockets, NullHandler(s) PROVE Watched'
  BY <1>0, <1>3 DEF Watched, NullHandler
<1>4. ASSUME NEW s \in Sockets, CloseCx(s), UNCHANGED neck PROVE Watched'
  BY <1>0, <1>4 DEF Watched, CloseCx
<1>5. ASSUME NEW s \in Sockets, ReadDefer(s) PROVE Watched'
  BY <1>0, <1>5 DEF Watched, ReadDefer, RescanRead
<1>6. ASSUME NEW s \in Sockets, ReadBytes(s) PROVE Watched'
  <2>1. mon' = WatchWriters(Other(s[1])) /\ UNCHANGED <<closed, neck, rescanIn, rescanOut>>
    BY <1>6 DEF ReadBytes, OnBytes
  <2> QED
    BY <1>0, <2>1 DEF Watched, WatchWriters
<1>7. ASSUME NEW s \in Sockets, WritePart(s) PROVE Watched'
  <2>1. /\ neck' = [neck EXCEPT ![s[1]] = TRUE] /\ UNCHANGED closed /\ s[1] \in Sides
        /\ mon' = [t \in Sockets |-> IF closed[t] THEN mon[t]
                                     ELSE IF t[1] = s[1] THEN {"in", "out"} ELSE {}]
    BY <1>7, SideFacts DEF WritePart, Bottleneck
  <2>2. ASSUME NEW t \in Sockets, ~closed'[t], ~neck'[Other(t[1])] PROVE mon'[t] # {}
    <3>1. Other(t[1]) # s[1] /\ t[1] \in Sides
      BY <1>0, <2>1, <2>2, SideFacts
    <3>2. t[1] = s[1]
      BY <2>1, <3>1 DEF Sides, Other
    <3> QED
      BY <2>1, <2>2, <3>2
  <2>3. \A t \in Sockets : mon'[t] # {} => "in" \in mon'[t]
    BY <2>1 DEF Watched
  <2> QED
    BY <2>2, <2>3 DEF Watched
<1>8. ASSUME NEW s \in Sockets, WriteAll(s) PROVE Watched'
  <2>1. /\ neck' = [neck EXCEPT ![s[1]] = FALSE] /\ UNCHANGED <<closed, rescanIn, rescanOut>>
        /\ s[1] \in Sides
        /\ mon' = [t \in Sockets |-> IF t = s /\ rescanFlag[s] THEN {"in"}
                                     ELSE IF t[1] # s[1] /\ neck[s[1]] /\ ~closed[t] THEN {"in"}
                                     ELSE mon[t]]
    BY <1>8, SideFacts DEF WriteAll, Resume
  <2>2. ASSUME NEW t \in Sockets, ~closed'[t], ~neck'[Other(t[1])]
        PROVE  mon'[t] # {} \/ t \in rescanIn' \cup rescanOut'
    <3>1. CASE t[1] # s[1] /\ neck[s[1]]
      BY <2>1, <2>2, <3>1
    <3>2. CASE t[1] # s[1] /\ ~neck[s[1]]
      <4>1. Other(t[1]) = s[1]
        BY <2>1, <3>2, SideFacts DEF Sides, Other
      <4>2. mon[t] # {} \/ t \in rescanIn \cup rescanOut
        BY <2>1, <2>2, <3>2, <4>1 DEF Watched
      <4> QED
        BY <2>1, <4>2
    <3>3. CASE t[1] = s[1]
      <4>1. Other(t[1]) # s[1] /\ Other(t[1]) \in Sides
        BY <2>1, <3>3, SideFacts
      <4>2. ~neck[Other(t[1])] /\ ~closed[t]
        BY <1>0, <2>1, <2>2, <4>1
      <4>3. mon[t] # {} \/ t \in rescanIn \cup rescanOut
        BY <4>2 DEF Watched
      <4> QED
        BY <2>1, <4>3
    <3> QED
      BY <3>1, <3>2, <3>3
  <2>3. \A t \in Sockets : mon'[t] # {} => "in" \in mon'[t]
    BY <2>1 DEF Watched
  <2> QED
    BY <2>2, <2>3 DEF Watched
<1>9. ASSUME NEW s \in Sockets, ReadNothing(s) PROVE Watched'
  <2>1. UNCHANGED neck /\ (CloseCx(s) \/ UNCHANGED <<closed, mon, rescanIn, rescanOut>>)
    BY <1>9 DEF ReadNothing
  <2> QED
    BY <1>1, <1>4, <2>1
<1>10. ASSUME NEW s \in Sockets, WriteError(s) PROVE Watched'
  BY <1>4, <1>10 DEF WriteError
<1>11. ASSUME NEW s \in Sockets,
              \/ SkipClosed("read", s) \/ SkipClosed("write", s) \/ ReadSkip(s) \/ WriteNothing(s)
              \/ PeerSend(s) \/ PeerRecv(s) \/ PeerClose(s)
       PROVE  Watched'
  BY <1>1, <1>11 DEF SkipClosed, ReadSkip, WriteNothing, PeerSend, PeerRecv, PeerClose
<1>12. CASE EndPass \/ \E s \in Sockets \cup {Hint} : StartPass(s)
  BY <1>1, <1>12 DEF EndPass, StartPass
<1>13. ASSUME NEW hinted \in BOOLEAN, Poll(hinted) PROVE Watched'
  <2>1. /\ mon' = [s \in Sockets |-> IF s \in outSet' THEN {"in"} ELSE mon[s]]
        /\ UNCHANGED <<closed, neck, rescanIn, rescanOut>>
    BY <1>13 DEF Poll, cxVars
  <2> QED
    BY <1>0, <2>1 DEF Watched
<1> QED
  BY <1>2, <1>3, <1>5, <1>6, <1>7, <1>8, <1>9, <1>10, <1>11, <1>12, <1>13 DEF Next, ProxyNext

\* With any number of sockets a side, an open socket that no bottleneck keeps
\* from being read is in epoll or in a rescan set (epoll::rescan_in,
\* baseProxy::change_side_monitoring).
THEOREM NobodyForgotten == Spec => []ReadersWatched
<1>1. Init => Watched
  BY DEF Init, Watched
<1>2. IndInv /\ Watched /\ [Next]_vars => Watched'
  <2>1. ASSUME UNCHANGED vars, Watched PROVE Watched'
    BY <2>1 DEF Watched, vars, cxVars, pollVars
  <2> QED
    BY <2>1, WatchedKept
<1>3. Watched => ReadersWatched
  BY DEF Watched, ReadersWatched
<1> QED
  BY <1>1, <1>2, <1>3, IndInvHolds, PTL DEF Spec

-----------------------------------------------------------------------------
(* StreamIntact and BufferBounded, for one socket a side.                  *)

LEMMA NumberedSeq ==
    ASSUME NEW T, NEW t \in T, NEW a \in Nat, NEW m \in Nat
    PROVE  /\ Numbered(t, a, m) \in Seq(T \X Nat) /\ Len(Numbered(t, a, m)) = m
           /\ \A i \in 1 .. m : Numbered(t, a, m)[i] = <<t, a + i>>
<1>1. \A i \in 1 .. m : <<t, a + i>> \in T \X Nat
  OBVIOUS
<1>2. Numbered(t, a, m) \in [1 .. m -> T \X Nat]
  BY <1>1 DEF Numbered
<1> QED
  BY <1>2, IsASeq DEF Numbered

\* The next byte.
LEMMA NumberedAppend ==
    ASSUME NEW T, NEW t \in T, NEW a \in Nat, NEW m \in Nat
    PROVE  Append(Numbered(t, a, m), <<t, a + m + 1>>) = Numbered(t, a, m + 1)
<1> DEFINE p == Numbered(t, a, m)
           q == Numbered(t, a, m + 1)
           e == <<t, a + m + 1>>
<1>1. /\ p \in Seq(T \X Nat) /\ Len(p) = m /\ \A i \in 1 .. m : p[i] = <<t, a + i>>
      /\ q \in Seq(T \X Nat) /\ Len(q) = m + 1 /\ \A i \in 1 .. m + 1 : q[i] = <<t, a + i>>
  <2>1. m + 1 \in Nat
    OBVIOUS
  <2> HIDE DEF p, q
  <2> QED
    BY <2>1, NumberedSeq DEF p, q
<1>2. e \in T \X Nat
  OBVIOUS
<1> HIDE DEF p, q, e
<1>3. /\ Append(p, e) \in Seq(T \X Nat) /\ Len(Append(p, e)) = m + 1
      /\ \A i \in 1 .. m : Append(p, e)[i] = p[i] /\ Append(p, e)[m + 1] = e
  BY <1>1, <1>2, AppendProperties
<1>4. ASSUME NEW i \in 1 .. m + 1 PROVE Append(p, e)[i] = q[i]
  <2>1. CASE i \in 1 .. m
    BY <1>1, <1>3, <2>1
  <2>2. CASE i = m + 1
    <3>1. q[m + 1] = <<t, a + (m + 1)>> /\ a + (m + 1) = a + m + 1
      BY <1>1
    <3>2. Append(p, e)[m + 1] = e
      BY <1>1, <1>2, AppendProperties
    <3> QED
      BY <2>2, <3>1, <3>2 DEF e
  <2>3. i \in 1 .. m \/ i = m + 1
    OBVIOUS
  <2> QED
    BY <2>1, <2>2, <2>3
<1> QED
  BY <1>1, <1>3, <1>4, SeqEqual DEF p, q, e

\* The first n of them, and the others.
LEMMA NumberedCut ==
    ASSUME NEW T, NEW t \in T, NEW a \in Nat, NEW m \in Nat, NEW n \in 0 .. m
    PROVE  /\ SubSeq(Numbered(t, a, m), 1, n) = Numbered(t, a, n)
           /\ SubSeq(Numbered(t, a, m), n + 1, m) = Numbered(t, a + n, m - n)
<1> DEFINE p == Numbered(t, a, m)
           q == Numbered(t, a, n)
           r == Numbered(t, a + n, m - n)
<1>0. n \in Nat /\ a + n \in Nat /\ m - n \in Nat
  OBVIOUS
<1>1. p \in Seq(T \X Nat) /\ Len(p) = m /\ \A i \in 1 .. m : p[i] = <<t, a + i>>
  BY NumberedSeq
<1>2. q \in Seq(T \X Nat) /\ Len(q) = n /\ \A i \in 1 .. n : q[i] = <<t, a + i>>
  BY <1>0, NumberedSeq
<1>3. r \in Seq(T \X Nat) /\ Len(r) = m - n /\ \A i \in 1 .. m - n : r[i] = <<t, (a + n) + i>>
  BY <1>0, NumberedSeq
<1> HIDE DEF p, q, r
<1>4. \A i \in 1 .. m : p[i] \in T \X Nat
  BY <1>1
<1>5. SubSeq(p, 1, n) = q
  <2>1. /\ SubSeq(p, 1, n) \in Seq(T \X Nat) /\ Len(SubSeq(p, 1, n)) = n
        /\ \A i \in 1 .. n : SubSeq(p, 1, n)[i] = p[i]
    BY <1>0, <1>4, SubSeqProperties
  <2>2. \A i \in 1 .. n : p[i] = q[i]
    <3>1. \A i \in 1 .. n : i \in 1 .. m
      BY <1>0
    <3> QED
      BY <1>1, <1>2, <3>1
  <2> QED
    BY <1>2, <2>1, <2>2, SeqEqual
<1>6. SubSeq(p, n + 1, m) = r
  <2>1. /\ SubSeq(p, n + 1, m) \in Seq(T \X Nat)
        /\ Len(SubSeq(p, n + 1, m)) = IF n + 1 <= m THEN m - (n + 1) + 1 ELSE 0
        /\ \A i \in 1 .. m - (n + 1) + 1 : SubSeq(p, n + 1, m)[i] = p[(n + 1) + i - 1]
    <3>1. \A i \in n + 1 .. m : p[i] \in T \X Nat
      BY <1>0, <1>4
    <3>2. n + 1 \in Int /\ m \in Int
      OBVIOUS
    <3> QED
      BY <3>1, <3>2, SubSeqProperties
  <2>2. Len(SubSeq(p, n + 1, m)) = m - n
    BY <2>1
  <2>3. ASSUME NEW i \in 1 .. m - n PROVE SubSeq(p, n + 1, m)[i] = r[i]
    <3>1. i \in 1 .. m - (n + 1) + 1 /\ (n + 1) + i - 1 = n + i /\ n + i \in 1 .. m
          /\ (a + n) + i = a + (n + i)
      OBVIOUS
    <3> QED
      BY <1>1, <1>3, <2>1, <3>1
  <2> QED
    BY <1>3, <2>1, <2>2, <2>3, SeqEqual
<1> QED
  BY <1>5, <1>6 DEF p, q, r

\* And both together.
LEMMA NumberedConcat ==
    ASSUME NEW T, NEW t \in T, NEW a \in Nat, NEW n \in Nat
    PROVE  Numbered(t, 0, a) \o Numbered(t, a, n) = Numbered(t, 0, a + n)
<1>1. a + n \in Nat /\ a \in 0 .. a + n /\ 0 + a = a /\ (a + n) - a = n /\ 0 \in Nat
  OBVIOUS
<1> DEFINE p == Numbered(t, 0, a + n)
<1>2. SubSeq(p, 1, a) = Numbered(t, 0, a) /\ SubSeq(p, a + 1, a + n) = Numbered(t, a, n)
  <2>1. /\ SubSeq(p, 1, a) = Numbered(t, 0, a)
        /\ SubSeq(p, a + 1, a + n) = Numbered(t, 0 + a, (a + n) - a)
    BY <1>1, NumberedCut
  <2> QED
    BY <1>1, <2>1
<1>3. p \in Seq(T \X Nat) /\ Len(p) = a + n
  <2> DEFINE k == a + n
  <2>1. k \in Nat /\ 0 \in Nat
    BY <1>1
  <2> HIDE DEF k
  <2>2. Numbered(t, 0, k) \in Seq(T \X Nat) /\ Len(Numbered(t, 0, k)) = k
    BY <2>1, NumberedSeq
  <2> QED
    BY <2>2 DEF k
<1> HIDE DEF p
<1>4. SubSeq(p, 1, a) \o SubSeq(p, a + 1, a + n) = SubSeq(p, 1, a + n)
  <2>1. 1 \in 1 .. Len(p) + 1 /\ a \in 1 - 1 .. Len(p) /\ a + n \in a .. Len(p)
    BY <1>3
  <2> QED
    BY <1>3, <2>1, ConcatAdjacentSubSeq
<1>5. SubSeq(p, 1, a + n) = p
  BY <1>3, SubSeqFull
<1> QED
  BY <1>2, <1>4, <1>5 DEF p

\* The provers find their way through concatenations when these are written
\* with a name of their own.
Glue(p, q) == p \o q

LEMMA GlueFacts ==
    /\ \A p, q \in Seq(Bytes) : Glue(p, q) \in Seq(Bytes) /\ Len(Glue(p, q)) = Len(p) + Len(q)
    /\ \A p, q, r \in Seq(Bytes) : Glue(Glue(p, q), r) = Glue(p, Glue(q, r))
    /\ \A p \in Seq(Bytes) : Glue(<<>>, p) = p
<1>1. ASSUME NEW p \in Seq(Bytes), NEW q \in Seq(Bytes), NEW r \in Seq(Bytes)
      PROVE  (p \o q) \o r = p \o (q \o r)
  BY ConcatAssociative
<1>2. ASSUME NEW p \in Seq(Bytes), NEW q \in Seq(Bytes), NEW r \in Seq(Bytes)
      PROVE  Glue(Glue(p, q), r) = Glue(p, Glue(q, r))
  BY <1>1 DEF Glue
<1>3. \A p, q \in Seq(Bytes) : Glue(p, q) \in Seq(Bytes) /\ Len(Glue(p, q)) = Len(p) + Len(q)
  BY ConcatProperties DEF Glue
<1>4. \A p \in Seq(Bytes) : Glue(<<>>, p) = p
  BY ConcatEmptySeq DEF Glue
<1> QED
  BY <1>2, <1>3, <1>4

\* A byte that is received leaves one buffer for the next.
LEMMA ReceivedStays ==
    ASSUME NEW g \in Seq(Bytes), NEW x \in Seq(Bytes), x # <<>>
    PROVE  Glue(Append(g, Head(x)), Tail(x)) = Glue(g, x)
<1> DEFINE h == <<Head(x)>>
           r == Tail(x)
<1>1. Head(x) \in Bytes /\ r \in Seq(Bytes) /\ h \in Seq(Bytes)
  BY HeadTailProperties
<1>2. Append(g, Head(x)) = Glue(g, h)
  BY <1>1, AppendIsConcat DEF Glue
<1>3. Glue(h, r) = x
  BY <1>1 DEF Glue
<1> HIDE DEF h, r
<1>4. Glue(Glue(g, h), r) = Glue(g, Glue(h, r))
  BY <1>1, GlueFacts
<1> QED
  BY <1>2, <1>3, <1>4 DEF r

\* So do bytes that are written.
LEMMA WrittenStays ==
    ASSUME NEW g \in Seq(Bytes), NEW x \in Seq(Bytes), NEW w \in Seq(Bytes), NEW n \in 0 .. Len(w)
    PROVE  Glue(Glue(g, Glue(x, SubSeq(w, 1, n))), SubSeq(w, n + 1, Len(w))) = Glue(Glue(g, x), w)
<1> DEFINE c == SubSeq(w, 1, n)
           d == SubSeq(w, n + 1, Len(w))
<1>1. c \in Seq(Bytes) /\ d \in Seq(Bytes)
  BY Cut
<1>2. Glue(c, d) = w
  <2>1. Len(w) \in Nat
    BY LenProperties
  <2>2. 1 \in 1 .. Len(w) + 1 /\ n \in 1 - 1 .. Len(w) /\ Len(w) \in n .. Len(w)
    BY <2>1
  <2>3. c \o d = SubSeq(w, 1, Len(w))
    BY <2>2, ConcatAdjacentSubSeq
  <2> QED
    BY <2>3, SubSeqFull DEF Glue
<1> HIDE DEF c, d
<1>3. Glue(g, Glue(x, c)) = Glue(Glue(g, x), c) /\ Glue(g, x) \in Seq(Bytes)
  BY <1>1, GlueFacts
<1>4. Glue(Glue(Glue(g, x), c), d) = Glue(Glue(g, x), Glue(c, d))
  BY <1>1, <1>3, GlueFacts
<1> QED
  BY <1>2, <1>3, <1>4 DEF c, d

\* One socket a side: the other one.
Mate(s) == <<Other(s[1]), 1>>

LEMMA MateFacts ==
    ASSUME NLeft = 1, NRight = 1
    PROVE  \A s \in Sockets : /\ Mate(s) \in Sockets /\ Mate(s) # s /\ Mate(Mate(s)) = s
                              /\ Opposite(s) = {Mate(s)} /\ Sockets = {s, Mate(s)}
                              /\ s[2] = 1 /\ s[1] \in Sides /\ Mate(s)[1] = Other(s[1])
<1>1. 1 .. 1 = {1}
  OBVIOUS
<1>2. SocketsOf("l") = {<<"l", 1>>} /\ SocketsOf("r") = {<<"r", 1>>}
  BY <1>1 DEF SocketsOf, Size
<1>3. Sockets = {<<"l", 1>>, <<"r", 1>>}
  BY <1>2 DEF Sockets
<1>4. Other("l") = "r" /\ Other("r") = "l"
  BY DEF Other
<1>5. Mate(<<"l", 1>>) = <<"r", 1>> /\ Mate(<<"r", 1>>) = <<"l", 1>>
  BY <1>4 DEF Mate
<1>6. Opposite(<<"l", 1>>) = {<<"r", 1>>} /\ Opposite(<<"r", 1>>) = {<<"l", 1>>}
  BY <1>2, <1>4 DEF Opposite
<1> QED
  BY <1>3, <1>4, <1>5, <1>6 DEF Sides

\* What InOrder says of one direction, from t to s.
Carried(s, t) ==
    /\ Len(rx[t]) <= sent[t]
    /\ rx[t] = Numbered(t, ReadFrom(t), Len(rx[t]))
    /\ Glue(Glue(got[s], tx[s]), wbuf[s]) = Numbered(t, 0, ReadFrom(t))

LEMMA CarriedBothWays ==
    ASSUME NLeft = 1, NRight = 1
    PROVE  /\ InOrder <=> \A s \in Sockets : Carried(s, Mate(s))
           /\ InOrder' <=> \A s \in Sockets : Carried(s, Mate(s))'
<1>1. \A s \in Sockets : Opposite(s) = {Mate(s)}
  BY MateFacts
<1>2. InOrder <=> \A s \in Sockets : Carried(s, Mate(s))
  BY <1>1 DEF InOrder, Carried, Path, Glue
<1>3. InOrder' <=> \A s \in Sockets : Carried(s, Mate(s))'
  BY <1>1 DEF InOrder, Carried, Path, Glue, ReadFrom, Mate
<1> QED
  BY <1>2, <1>3

\* A byte that arrives goes to the end of what the kernel received.
LEMMA OrderSent ==
    ASSUME NLeft = 1, NRight = 1, TypeOK, NEW u \in Sockets, PeerSend(u), InOrder
    PROVE  InOrder'
<1> USE DEF cxVars
<1>1. \A s \in Sockets : Carried(s, Mate(s))
  BY CarriedBothWays
<1>2. ASSUME NEW s \in Sockets PROVE Carried(s, Mate(s))'
  <2> DEFINE t == Mate(s)
  <2>1. t \in Sockets
    BY MateFacts
  <2>2. Carried(s, t)
    BY <1>1
  <2> HIDE DEF t
  <2>3. CASE t # u
    <3>1. sent'[t] = sent[t] /\ rx'[t] = rx[t] /\ UNCHANGED <<got, tx, wbuf>>
      BY <2>1, <2>3 DEF PeerSend, TypeOK
    <3>2. Carried(s, t)'
      BY <2>2, <3>1 DEF Carried, ReadFrom
    <3> QED
      BY <3>2 DEF t, Mate
  <2>4. CASE t = u
    <3> DEFINE a == ReadFrom(t)
               m == Len(rx[t])
    <3>1. /\ sent'[t] = sent[t] + 1 /\ rx'[t] = Append(rx[t], <<t, sent[t] + 1>>)
          /\ UNCHANGED <<got, tx, wbuf>>
      BY <2>1, <2>4 DEF PeerSend, TypeOK
    <3>2. /\ sent[t] \in Nat /\ m \in Nat /\ rx[t] \in Seq(Bytes) /\ <<t, sent[t] + 1>> \in Bytes
      <4>1. sent[t] \in 0 .. MaxSent /\ rx[t] \in Seq(Bytes) /\ sent[t] < MaxSent
        BY <2>1, <2>4 DEF TypeOK, PeerSend
      <4>2. m \in Nat
        BY <4>1, LenProperties
      <4>3. sent[t] + 1 \in 1 .. MaxSent /\ sent[t] \in Nat
        BY <4>1, SizesAssumption
      <4> QED
        BY <2>1, <4>1, <4>2, <4>3 DEF Bytes
    <3>3. a \in Nat /\ a + m = sent[t] /\ m <= sent[t]
      <4>1. m <= sent[t] /\ a = sent[t] - m
        BY <2>2 DEF Carried, ReadFrom
      <4> HIDE DEF a, m
      <4> QED
        BY <3>2, <4>1
    <3>4. Len(rx'[t]) = m + 1
      BY <3>1, <3>2, AppendProperties
    <3>5. ReadFrom(t)' = a
      <4>1. ReadFrom(t)' = sent'[t] - Len(rx'[t])
        BY DEF ReadFrom, t, Mate
      <4> HIDE DEF a, m
      <4>2. (sent[t] + 1) - (m + 1) = a
        BY <3>2, <3>3
      <4> QED
        BY <3>1, <3>4, <4>1, <4>2, Zenon
    <3>6. rx'[t] = Numbered(t, a, m + 1)
      <4> HIDE DEF a, m
      <4>1. rx[t] = Numbered(t, a, m)
        BY <2>2 DEF Carried, a, m
      <4>2. Append(Numbered(t, a, m), <<t, a + m + 1>>) = Numbered(t, a, m + 1)
        BY <2>1, <3>2, <3>3, NumberedAppend
      <4> QED
        BY <3>1, <3>3, <4>1, <4>2
    <3>7. Glue(Glue(got'[s], tx'[s]), wbuf'[s]) = Numbered(t, 0, a)
      BY <2>2, <3>1 DEF Carried
    <3>8. Len(rx'[t]) <= sent'[t]
      BY <3>1, <3>2, <3>3, <3>4
    <3> HIDE DEF a, m
    <3>9. Carried(s, t)'
      BY <3>4, <3>5, <3>6, <3>7, <3>8 DEF Carried
    <3> QED
      BY <3>9 DEF t, Mate
  <2> QED
    BY <2>3, <2>4
<1> QED
  BY <1>2, CarriedBothWays

\* A byte that the remote end receives, and bytes that the kernel takes.
LEMMA OrderMoved ==
    ASSUME NLeft = 1, NRight = 1, TypeOK, InOrder, UNCHANGED <<sent, rx>>, NEW u \in Sockets,
           \/ PeerRecv(u)
           \/ UNCHANGED got /\ \E n \in 0 .. Len(wbuf[u]) : Send(u, n)
    PROVE  InOrder'
<1> USE DEF cxVars
<1>1. \A s \in Sockets : Carried(s, Mate(s))
  BY CarriedBothWays
<1>2. \A s \in Sockets : got[s] \in Seq(Bytes) /\ tx[s] \in Seq(Bytes) /\ wbuf[s] \in Seq(Bytes)
  BY DEF TypeOK
<1>3. ASSUME NEW s \in Sockets
      PROVE  Glue(Glue(got'[s], tx'[s]), wbuf'[s]) = Glue(Glue(got[s], tx[s]), wbuf[s])
  <2>1. CASE s # u
    BY <2>1 DEF TypeOK, PeerRecv, Send
  <2>2. CASE s = u /\ PeerRecv(u)
    <3>1. /\ got'[s] = Append(got[s], Head(tx[s])) /\ tx'[s] = Tail(tx[s]) /\ wbuf'[s] = wbuf[s]
          /\ tx[s] # <<>>
      BY <2>2 DEF TypeOK, PeerRecv
    <3> QED
      BY <1>2, <3>1, ReceivedStays
  <2>3. ASSUME s = u, UNCHANGED got, NEW n \in 0 .. Len(wbuf[u]), Send(u, n)
        PROVE  Glue(Glue(got'[s], tx'[s]), wbuf'[s]) = Glue(Glue(got[s], tx[s]), wbuf[s])
    <3>1. /\ tx'[s] = Glue(tx[s], SubSeq(wbuf[s], 1, n)) /\ got'[s] = got[s]
          /\ wbuf'[s] = SubSeq(wbuf[s], n + 1, Len(wbuf[s]))
      BY <2>3 DEF TypeOK, Send, Glue
    <3>2. n \in 0 .. Len(wbuf[s])
      BY <2>3
    <3> QED
      BY <1>2, <3>1, <3>2, WrittenStays
  <2> QED
    BY <2>1, <2>2, <2>3
<1>4. ASSUME NEW s \in Sockets PROVE Carried(s, Mate(s))'
  <2>1. Carried(s, Mate(s))
    BY <1>1
  <2> QED
    BY <1>3, <2>1 DEF Carried, ReadFrom, Mate
<1> QED
  BY <1>4, CarriedBothWays

\* Bytes that are read go to the end of the other socket's path.
LEMMA OrderRead ==
    ASSUME NLeft = 1, NRight = 1, TypeOK, InOrder, NEW u \in Sockets, ReadBytes(u)
    PROVE  InOrder'
<1> DEFINE n == IF Len(rx[u]) < ReadMax THEN Len(rx[u]) ELSE ReadMax
           b == SubSeq(rx[u], 1, n)
           m == Len(rx[u])
           a == ReadFrom(u)
<1>1. \A s \in Sockets : Carried(s, Mate(s))
  BY CarriedBothWays
<1>2. /\ Mate(u) \in Sockets /\ Mate(u) # u /\ Mate(Mate(u)) = u /\ Sockets = {u, Mate(u)}
      /\ Mate(u)[1] = Other(u[1]) /\ Mate(u)[2] = 1 /\ u[1] # Other(u[1])
  BY MateFacts, SideFacts
<1>3. n \in 0 .. m /\ m \in Nat /\ rx[u] \in Seq(Bytes)
  <2>1. rx[u] \in Seq(Bytes)
    BY DEF TypeOK
  <2> QED
    BY <2>1, SizesAssumption, LenProperties
<1>4. /\ wbuf' = CopyTo(b, Other(u[1])) /\ UNCHANGED <<sent, tx, got>>
      /\ rx' = [rx EXCEPT ![u] = SubSeq(@, n + 1, Len(@))]
  BY DEF ReadBytes, OnBytes
<1>5. wbuf'[u] = wbuf[u] /\ wbuf'[Mate(u)] = Glue(wbuf[Mate(u)], b)
  <2> HIDE DEF b
  <2>1. 1 .. 1 - 1 = {}
    OBVIOUS
  <2> QED
    BY <1>2, <1>4, <2>1 DEF CopyTo, Glue
<1>6. rx'[u] = SubSeq(rx[u], n + 1, m) /\ rx'[Mate(u)] = rx[Mate(u)]
  BY <1>2, <1>4 DEF TypeOK
<1>7. Carried(u, Mate(u))'
  <2>1. Carried(u, Mate(u))
    BY <1>1
  <2> QED
    BY <1>4, <1>5, <1>6, <2>1 DEF Carried, ReadFrom, Mate
<1>8. /\ m <= sent[u] /\ rx[u] = Numbered(u, a, m) /\ a = sent[u] - m
      /\ Glue(Glue(got[Mate(u)], tx[Mate(u)]), wbuf[Mate(u)]) = Numbered(u, 0, a)
  BY <1>1, <1>2 DEF Carried, ReadFrom
<1>9. sent[u] \in Nat
  BY SizesAssumption DEF TypeOK
<1> HIDE DEF n, m, a
<1>10. a \in Nat /\ n \in Nat /\ m - n \in Nat /\ a + n \in Nat /\ 0 \in Nat
  BY <1>3, <1>8, <1>9
<1>11. b = Numbered(u, a, n) /\ rx'[u] = Numbered(u, a + n, m - n)
  <2>1. /\ SubSeq(Numbered(u, a, m), 1, n) = Numbered(u, a, n)
        /\ SubSeq(Numbered(u, a, m), n + 1, m) = Numbered(u, a + n, m - n)
    BY <1>3, <1>10, NumberedCut
  <2>2. b = SubSeq(Numbered(u, a, m), 1, n) /\ rx'[u] = SubSeq(Numbered(u, a, m), n + 1, m)
    BY <1>6, <1>8, Zenon
  <2> QED
    BY <2>1, <2>2, Zenon
<1>12. Len(rx'[u]) = m - n
  <2> DEFINE c == a + n
             k == m - n
  <2>1. c \in Nat /\ k \in Nat
    BY <1>10
  <2> HIDE DEF c, k
  <2>2. Len(Numbered(u, c, k)) = k
    BY <2>1, NumberedSeq
  <2> QED
    BY <1>11, <2>2 DEF c, k
<1>13. sent'[u] - Len(rx'[u]) = a + n /\ Len(rx'[u]) <= sent'[u]
  <2>1. sent[u] - (m - n) = a + n /\ m - n <= sent[u]
    BY <1>3, <1>8, <1>9, <1>10
  <2> QED
    BY <1>4, <1>12, <2>1, Zenon
<1>14. b \in Seq(Bytes)
  BY <1>3, Cut DEF b, m
<1> HIDE DEF b
<1>15. Glue(Glue(got'[Mate(u)], tx'[Mate(u)]), wbuf'[Mate(u)]) = Numbered(u, 0, a + n)
  <2> DEFINE h == Glue(got[Mate(u)], tx[Mate(u)])
             w == wbuf[Mate(u)]
  <2>1. got[Mate(u)] \in Seq(Bytes) /\ tx[Mate(u)] \in Seq(Bytes) /\ w \in Seq(Bytes)
    BY <1>2 DEF TypeOK
  <2>2. h \in Seq(Bytes)
    BY <2>1, GlueFacts
  <2> HIDE DEF h, w
  <2>3. Glue(h, Glue(w, b)) = Glue(Glue(h, w), b)
    BY <1>14, <2>1, <2>2, GlueFacts
  <2>4. Glue(Numbered(u, 0, a), Numbered(u, a, n)) = Numbered(u, 0, a + n)
    BY <1>10, NumberedConcat DEF Glue
  <2> QED
    BY <1>4, <1>5, <1>8, <1>11, <2>3, <2>4 DEF h, w
<1>16. Carried(Mate(u), u)'
  <2>1. ReadFrom(u)' = a + n
    BY <1>13 DEF ReadFrom
  <2>2. Mate(u)' = Mate(u)
    BY DEF Mate
  <2> QED
    BY <1>11, <1>12, <1>13, <1>15, <2>1, <2>2 DEF Carried
<1> QED
  BY <1>2, <1>7, <1>16, CarriedBothWays

\* Where in a pass the sockets are visited: each loop has one.
ReadLoop(side) == IF side = "l" THEN 1 ELSE 2
WriteLoop(side) == IF side = "l" THEN 3 ELSE 4

LEMMA Visits ==
    ASSUME NLeft = 1, NRight = 1, pos = 1, NEW op, NEW s \in Sockets, loop \in 1 .. 5,
           Current(op, s)
    PROVE  /\ pc = "pass" /\ loop \in 1 .. 4 /\ s[1] \in Sides
           /\ op = "read" => loop = ReadLoop(s[1])
           /\ op = "write" => loop = WriteLoop(s[1])
           /\ Proceed \/ Break => loop' = loop + 1 /\ pos' = 1
<1>1. loop \in 1 .. 4 /\ pc = "pass" /\ Loops[loop] = <<op, s[1]>>
  BY LoopFacts DEF Current
<1>2. s[1] \in Sides
  BY SideFacts
<1>3. loop = 1 \/ loop = 2 \/ loop = 3 \/ loop = 4
  BY <1>1
<1>4. (op = "read" => loop = ReadLoop(s[1])) /\ (op = "write" => loop = WriteLoop(s[1]))
  BY <1>1, <1>2, <1>3 DEF Loops, ReadLoop, WriteLoop, Sides
<1>5. Size(Loops[loop][2]) = 1
  BY <1>1, <1>3 DEF Loops, Size
<1>6. Proceed \/ Break => loop' = loop + 1 /\ pos' = 1
  BY <1>5 DEF Proceed, Break
<1> QED
  BY <1>1, <1>2, <1>4, <1>6

\* Outside of the loops nothing is pending without a bottleneck.
LEMMA DrainedOutside ==
    ASSUME Drained, pc = "pass" => loop = 5, UNCHANGED <<closed, wbuf, neck>>
    PROVE  Drained'
<1>1. \A s \in Sockets : ~(pc = "pass" /\ loop \in MayBePending(s[1]))
  BY DEF MayBePending
<1> QED
  BY <1>1 DEF Drained

\* A visit that reads may leave bytes for the other socket, if there were none.
LEMMA DrainedRead ==
    ASSUME NLeft = 1, NRight = 1, Drained, pc = "pass", pc' = "pass", loop' = loop + 1,
           NEW s \in Sockets, loop = ReadLoop(s[1]),
           UNCHANGED neck, \A t \in Sockets : closed[t] => closed'[t],
           wbuf'[s] = wbuf[s],
           ~closed'[Mate(s)] => Len(wbuf'[Mate(s)]) <= ReadMax
    PROVE  Drained'
<1>1. /\ Sockets = {s, Mate(s)} /\ s[1] \in Sides /\ Mate(s)[1] = Other(s[1])
  BY MateFacts
<1>2. loop' \in MayBePending(Mate(s)[1])
  BY <1>1 DEF Sides, Other, ReadLoop, MayBePending
<1>3. loop \in MayBePending(s[1]) => loop' \in MayBePending(s[1])
  BY <1>1 DEF Sides, ReadLoop, MayBePending
<1>4. ASSUME ~closed'[s]
      PROVE  /\ Len(wbuf'[s]) <= ReadMax
             /\ wbuf'[s] = <<>> \/ neck'[s[1]] \/ (pc' = "pass" /\ loop' \in MayBePending(s[1]))
  BY <1>3, <1>4 DEF Drained
<1>5. ASSUME NEW t \in Sockets, ~closed'[t]
      PROVE  /\ Len(wbuf'[t]) <= ReadMax
             /\ wbuf'[t] = <<>> \/ neck'[t[1]] \/ (pc' = "pass" /\ loop' \in MayBePending(t[1]))
  <2>1. CASE t = s
    BY <1>4, <1>5, <2>1
  <2>2. CASE t = Mate(s)
    BY <1>2, <1>5, <2>2
  <2> QED
    BY <1>1, <2>1, <2>2
<1> QED
  BY <1>5 DEF Drained, MayBePending

\* A visit that writes leaves bytes behind only with the bottleneck.
LEMMA DrainedWrite ==
    ASSUME NLeft = 1, NRight = 1, Drained, pc = "pass", pc' = "pass", loop' = loop + 1,
           NEW s \in Sockets, loop = WriteLoop(s[1]),
           closed[Mate(s)] => closed'[Mate(s)], wbuf'[Mate(s)] = wbuf[Mate(s)],
           neck'[Mate(s)[1]] = neck[Mate(s)[1]],
           ~closed'[s] => Len(wbuf'[s]) <= ReadMax /\ (wbuf'[s] = <<>> \/ neck'[s[1]])
    PROVE  Drained'
<1> DEFINE r == Mate(s)
<1>1. r \in Sockets /\ Sockets = {s, r} /\ s[1] \in Sides /\ r[1] = Other(s[1])
  BY MateFacts
<1>2. loop \in MayBePending(r[1]) => loop' \in MayBePending(r[1])
  BY <1>1 DEF Sides, Other, WriteLoop, MayBePending
<1>3. /\ closed[r] => closed'[r]
      /\ wbuf'[r] = wbuf[r] /\ neck'[r[1]] = neck[r[1]]
  OBVIOUS
<1> HIDE DEF r
<1>4. ASSUME ~closed'[r]
      PROVE  /\ Len(wbuf'[r]) <= ReadMax
             /\ wbuf'[r] = <<>> \/ neck'[r[1]] \/ (pc' = "pass" /\ loop' \in MayBePending(r[1]))
  BY <1>1, <1>2, <1>3, <1>4 DEF Drained
<1>5. ASSUME NEW t \in Sockets, ~closed'[t]
      PROVE  /\ Len(wbuf'[t]) <= ReadMax
             /\ wbuf'[t] = <<>> \/ neck'[t[1]] \/ (pc' = "pass" /\ loop' \in MayBePending(t[1]))
  <2>1. CASE t = s
    BY <1>5, <2>1
  <2>2. CASE t = r
    BY <1>4, <1>5, <2>2
  <2> QED
    BY <1>1, <2>1, <2>2
<1> QED
  BY <1>5 DEF Drained, MayBePending

\* Every step of a proxy with one socket a side keeps the order and the
\* drained buffers.
LEMMA PairKept ==
    ASSUME IndInv, PairInv, Next
    PROVE  PairInv'
<1> USE DEF netVars, cxVars, pollVars, loopVars, passVars
<1>0. /\ NLeft = 1 /\ NRight = 1 /\ pos = 1 /\ InOrder /\ Drained /\ TypeOK /\ loop \in 1 .. 5
      /\ wbuf \in [Sockets -> Seq(Bytes)] /\ closed \in [Sockets -> BOOLEAN]
      /\ neck \in [Sides -> BOOLEAN]
  BY DEF PairInv, IndInv, TypeOK
<1>1. ASSUME UNCHANGED <<sent, rx, tx, got, wbuf>> PROVE InOrder'
  BY <1>0, <1>1 DEF InOrder, ReadFrom, Path
<1>2. \A s \in Sockets : /\ Mate(s) \in Sockets /\ Mate(s) # s /\ Mate(Mate(s)) = s
                         /\ s[1] \in Sides /\ Mate(s)[1] = Other(s[1]) /\ Mate(s)[1] # s[1]
                         /\ Mate(s)[1] \in Sides
  BY <1>0, MateFacts, SideFacts
<1>3. ASSUME InOrder', Drained', pos' = 1 PROVE PairInv'
  BY <1>0, <1>3 DEF PairInv
<1>4. ASSUME NEW s \in Sockets, PeerSend(s) PROVE PairInv'
  <2>1. InOrder'
    BY <1>0, <1>4, OrderSent
  <2>2. Drained' /\ pos' = 1
    BY <1>0, <1>4 DEF PeerSend, Drained
  <2> QED
    BY <1>3, <2>1, <2>2
<1>5. ASSUME NEW s \in Sockets, PeerRecv(s) PROVE PairInv'
  <2>1. InOrder'
    BY <1>0, <1>5, OrderMoved DEF PeerRecv
  <2>2. Drained' /\ pos' = 1
    BY <1>0, <1>5 DEF PeerRecv, Drained
  <2> QED
    BY <1>3, <2>1, <2>2
<1>6. ASSUME NEW s \in Sockets, PeerClose(s) PROVE PairInv'
  <2>1. Drained' /\ pos' = 1 /\ UNCHANGED <<sent, rx, tx, got, wbuf>>
    BY <1>0, <1>6 DEF PeerClose, Drained
  <2> QED
    BY <1>1, <1>3, <2>1
<1>7. CASE \/ Rescan \/ EndPass \/ Poll(TRUE) \/ Poll(FALSE)
           \/ \E s \in Sockets \cup {Hint} : StartPass(s)
           \/ \E s \in Sockets : NullHandler(s)
  <2>1. /\ UNCHANGED <<sent, rx, tx, got, wbuf, closed, neck>> /\ pos' = 1
        /\ pc = "pass" => loop = 5
    <3>1. CASE EndPass
      BY <1>0, <3>1, LoopFacts DEF EndPass
    <3>2. CASE Rescan \/ Poll(TRUE) \/ Poll(FALSE)
      BY <1>0, <3>2 DEF Rescan, Poll
    <3>3. CASE \E s \in Sockets \cup {Hint} : StartPass(s)
      BY <1>0, <3>3 DEF StartPass
    <3>4. CASE \E s \in Sockets : NullHandler(s)
      BY <1>0, <3>4 DEF NullHandler
    <3> QED
      BY <1>7, <3>1, <3>2, <3>3, <3>4
  <2> QED
    BY <1>0, <1>1, <1>3, <2>1, DrainedOutside
<1>8. ASSUME NEW s \in Sockets,
             \/ SkipClosed("read", s) \/ ReadSkip(s) \/ ReadDefer(s) \/ ReadNothing(s)
      PROVE  PairInv'
  <2>1. Current("read", s) /\ (Proceed \/ Break)
    BY <1>8 DEF SkipClosed, ReadSkip, ReadDefer, ReadNothing, MayRead
  <2>2. pc = "pass" /\ loop = ReadLoop(s[1]) /\ loop' = loop + 1 /\ pos' = 1
    BY <1>0, <2>1, Visits
  <2>3. /\ UNCHANGED <<sent, rx, tx, got, wbuf, neck, pc>>
        /\ \A t \in Sockets : closed[t] => closed'[t]
    BY <1>0, <1>8 DEF SkipClosed, ReadSkip, ReadDefer, ReadNothing, CloseCx
  <2>4. ~closed'[Mate(s)] => Len(wbuf'[Mate(s)]) <= ReadMax
    BY <1>0, <1>2, <2>3 DEF Drained
  <2>5. Drained'
    BY <1>0, <2>2, <2>3, <2>4, DrainedRead
  <2> QED
    BY <1>1, <1>3, <2>2, <2>3, <2>5
<1>9. ASSUME NEW s \in Sockets, ReadBytes(s) PROVE PairInv'
  <2>1. Current("read", s) /\ (Proceed \/ Break)
    BY <1>9 DEF ReadBytes, MayRead, Proceed
  <2>2. pc = "pass" /\ loop = ReadLoop(s[1]) /\ loop' = loop + 1 /\ pos' = 1
    BY <1>0, <2>1, Visits
  <2>3. InOrder'
    BY <1>0, <1>9, OrderRead
  <2> DEFINE n == IF Len(rx[s]) < ReadMax THEN Len(rx[s]) ELSE ReadMax
             b == SubSeq(rx[s], 1, n)
  <2>4. UNCHANGED <<neck, pc, closed>> /\ ~neck[Other(s[1])] /\ wbuf' = CopyTo(b, Other(s[1]))
    BY <1>9 DEF ReadBytes, MayRead, OnBytes
  <2>5. n \in 0 .. Len(rx[s]) /\ n <= ReadMax
    <3>1. Len(rx[s]) \in Nat
      BY <1>0, LenProperties DEF TypeOK
    <3> QED
      BY <3>1, SizesAssumption
  <2>6. b \in Seq(Bytes) /\ Len(b) = n
    BY <1>0, <2>5, Cut DEF TypeOK
  <2> HIDE DEF b
  <2>7. wbuf'[s] = wbuf[s] /\ wbuf'[Mate(s)] = Glue(wbuf[Mate(s)], b)
    <3>1. 1 .. 1 - 1 = {} /\ Mate(s)[2] = 1
      BY DEF Mate
    <3> QED
      BY <1>0, <1>2, <2>4, <3>1 DEF CopyTo, Glue
  <2>8. loop \notin MayBePending(Mate(s)[1])
    BY <1>2, <2>2 DEF Sides, Other, ReadLoop, MayBePending
  <2>9. ~closed[Mate(s)] => wbuf[Mate(s)] = <<>>
    BY <1>0, <1>2, <2>4, <2>8 DEF Drained
  <2>10. ~closed'[Mate(s)] => Len(wbuf'[Mate(s)]) <= ReadMax
    <3>1. ~closed[Mate(s)] => wbuf'[Mate(s)] = b
      BY <2>6, <2>7, <2>9, GlueFacts
    <3> QED
      BY <2>4, <2>5, <2>6, <3>1
  <2>11. Drained'
    BY <1>0, <2>2, <2>4, <2>7, <2>10, DrainedRead
  <2> QED
    BY <1>3, <2>2, <2>3, <2>11
<1>10. ASSUME NEW s \in Sockets, SkipClosed("write", s) \/ WriteNothing(s) \/ WriteError(s)
       PROVE  PairInv'
  <2>1. Current("write", s) /\ (Proceed \/ Break)
    BY <1>10 DEF SkipClosed, WriteNothing, WriteError
  <2>2. pc = "pass" /\ loop = WriteLoop(s[1]) /\ loop' = loop + 1 /\ pos' = 1
    BY <1>0, <2>1, Visits
  <2>3. /\ UNCHANGED <<sent, rx, tx, got, wbuf, neck, pc>>
        /\ closed'[s] \/ wbuf[s] = <<>>
        /\ \A t \in Sockets : closed[t] => closed'[t]
    BY <1>0, <1>10 DEF SkipClosed, WriteNothing, WriteError, CloseCx
  <2>4. ~closed'[s] => Len(wbuf'[s]) <= ReadMax /\ (wbuf'[s] = <<>> \/ neck'[s[1]])
    BY <1>0, <2>3 DEF Drained
  <2>5. Drained'
    BY <1>0, <1>2, <2>2, <2>3, <2>4, DrainedWrite
  <2> QED
    BY <1>1, <1>3, <2>2, <2>3, <2>5
<1>11. ASSUME NEW s \in Sockets, WritePart(s) \/ WriteAll(s) PROVE PairInv'
  <2>1. /\ Current("write", s) /\ (Proceed \/ Break) /\ ~closed[s]
        /\ UNCHANGED <<sent, rx, got, closed, pc>>
    BY <1>11 DEF WritePart, WriteAll
  <2>2. pc = "pass" /\ loop = WriteLoop(s[1]) /\ loop' = loop + 1 /\ pos' = 1
    BY <1>0, <2>1, Visits
  <2>3. /\ Len(wbuf[s]) \in Nat /\ Len(tx[s]) \in Nat /\ Len(tx[s]) <= KernelCap
        /\ Len(wbuf[s]) <= ReadMax
    BY <1>0, <2>1, LenProperties DEF IndInv, TypeOK, TxBounded, Drained
  <2>4. PICK n \in 0 .. Len(wbuf[s]) : Send(s, n) /\ (n = Len(wbuf[s]) \/ neck'[s[1]])
    <3>1. CASE WritePart(s)
      <4>1. Room(s) \in 0 .. Len(wbuf[s])
        BY <2>3, <3>1, SizesAssumption DEF WritePart, Room
      <4>2. Send(s, Room(s)) /\ neck'[s[1]]
        BY <1>0, <1>2, <3>1 DEF WritePart, Bottleneck
      <4> QED
        BY <4>1, <4>2
    <3>2. CASE WriteAll(s)
      <4>1. Len(wbuf[s]) \in 0 .. Len(wbuf[s])
        BY <2>3
      <4> QED
        BY <3>2, <4>1 DEF WriteAll
    <3> QED
      BY <1>11, <3>1, <3>2
  <2>5. InOrder'
    BY <1>0, <2>1, <2>4, OrderMoved
  <2>6. /\ Len(wbuf'[s]) = Len(wbuf[s]) - n /\ wbuf'[s] \in Seq(Bytes)
        /\ wbuf'[Mate(s)] = wbuf[Mate(s)]
    BY <1>0, <1>2, <2>4, SendFacts
  <2>7. Len(wbuf'[s]) <= ReadMax /\ (wbuf'[s] = <<>> \/ neck'[s[1]])
    <3>1. n = Len(wbuf[s]) => Len(wbuf'[s]) = 0
      BY <2>3, <2>6
    <3>2. Len(wbuf'[s]) <= ReadMax
      BY <2>3, <2>4, <2>6, SizesAssumption
    <3> QED
      BY <2>4, <2>6, <3>1, <3>2, EmptySeq
  <2>8. neck'[Mate(s)[1]] = neck[Mate(s)[1]]
    BY <1>0, <1>2, <1>11 DEF WritePart, WriteAll, Bottleneck, Resume
  <2>9. Drained'
    BY <1>0, <1>2, <2>1, <2>2, <2>6, <2>7, <2>8, DrainedWrite
  <2> QED
    BY <1>3, <2>2, <2>5, <2>9
<1> QED
  BY <1>4, <1>5, <1>6, <1>7, <1>8, <1>9, <1>10, <1>11 DEF Next, ProxyNext

\* The invariant of a proxy with one socket a side.
LEMMA PairInvHolds == NLeft = 1 /\ NRight = 1 /\ Spec => []PairInv
<1>1. NLeft = 1 /\ NRight = 1 /\ Init => PairInv
  <2> SUFFICES ASSUME NLeft = 1, NRight = 1, Init PROVE PairInv
    OBVIOUS
  <2>1. Drained
    BY SizesAssumption, EmptySeq DEF Init, Drained
  <2>2. ASSUME NEW s \in Sockets PROVE Carried(s, Mate(s))
    <3>1. Mate(s) \in Sockets
      BY MateFacts
    <3>2. rx[Mate(s)] = <<>> /\ sent[Mate(s)] = 0 /\ got[s] = <<>> /\ tx[s] = <<>> /\ wbuf[s] = <<>>
      BY <3>1 DEF Init
    <3>3. ReadFrom(Mate(s)) = 0 /\ Len(rx[Mate(s)]) = 0
      <4>1. Len(rx[Mate(s)]) = 0
        BY <3>2
      <4>2. ReadFrom(Mate(s)) = 0 - 0
        BY <3>2, <4>1, Zenon DEF ReadFrom
      <4> QED
        BY <4>1, <4>2
    <3>4. Numbered(Mate(s), 0, 0) = <<>>
      <4>1. Numbered(Mate(s), 0, 0) \in Seq(Sockets \X Nat) /\ Len(Numbered(Mate(s), 0, 0)) = 0
        BY <3>1, NumberedSeq
      <4> QED
        BY <4>1, EmptySeq
    <3>5. Glue(Glue(got[s], tx[s]), wbuf[s]) = <<>>
      <4>1. <<>> \in Seq(Bytes)
        OBVIOUS
      <4> QED
        BY <3>2, <4>1, GlueFacts
    <3> QED
      BY <3>2, <3>3, <3>4, <3>5 DEF Carried
  <2> QED
    BY <2>1, <2>2, CarriedBothWays DEF PairInv, Init
<1>2. IndInv /\ PairInv /\ [Next]_vars => PairInv'
  <2>1. ASSUME UNCHANGED vars, PairInv PROVE PairInv'
    BY <2>1 DEF PairInv, InOrder, Drained, ReadFrom, Path, vars, netVars, cxVars, loopVars, passVars
  <2> QED
    BY <2>1, PairKept
<1> QED
  BY <1>1, <1>2, IndInvHolds, PTL DEF Spec

\* Between two sockets every byte read is passed on once and in order, for all
\* sizes of buffers, kernel buffers and reads: handle_cx_read_once,
\* on_left_bytes and on_right_bytes, to_write with its buffer swap, and the
\* partial writes of baseHostCX::write.
THEOREM PairStreams == NLeft = 1 /\ NRight = 1 /\ Spec => []StreamIntact
<1>1. IndInv /\ PairInv => StreamIntact
  <2> SUFFICES ASSUME IndInv, PairInv, NEW s \in Sockets, NEW t \in Opposite(s)
               PROVE  LET mine == {i \in DOMAIN Path(s) : Path(s)[i][1] = t}
                      IN  /\ {Path(s)[i][2] : i \in mine} = 1 .. ReadFrom(t)
                          /\ \A i, j \in mine : i < j => Path(s)[i][2] < Path(s)[j][2]
    BY DEF StreamIntact
  <2> DEFINE k == ReadFrom(t)
             p == Path(s)
             mine == {i \in DOMAIN p : p[i][1] = t}
  <2>1. t \in Sockets
    BY MateFacts DEF PairInv
  <2>2. k \in Nat
    <3>1. Len(rx[t]) <= sent[t] /\ sent[t] \in 0 .. MaxSent /\ rx[t] \in Seq(Bytes)
      BY <2>1 DEF PairInv, InOrder, IndInv, TypeOK
    <3>2. Len(rx[t]) \in Nat
      BY <3>1, LenProperties
    <3> QED
      BY <3>1, <3>2, SizesAssumption DEF ReadFrom
  <2>3. p = Numbered(t, 0, k)
    BY DEF PairInv, InOrder
  <2> HIDE DEF p, k
  <2>4. DOMAIN p = 1 .. k /\ \A i \in 1 .. k : p[i] = <<t, i>>
    BY <2>2, <2>3 DEF Numbered
  <2>5. mine = 1 .. k
    BY <2>4
  <2> HIDE DEF mine
  <2>6. {p[i][2] : i \in mine} = 1 .. k
    BY <2>4, <2>5
  <2>7. \A i, j \in mine : i < j => p[i][2] < p[j][2]
    BY <2>4, <2>5
  <2> QED
    BY <2>6, <2>7 DEF p, k, mine
<1> QED
  BY <1>1, IndInvHolds, PairInvHolds, PTL

\* Between two sockets a write buffer never holds more than one read: the
\* bottleneck of handle_cx_write_once stops the reads in time.
THEOREM PairBuffers == NLeft = 1 /\ NRight = 1 /\ Spec => []BufferBounded
<1>1. PairInv => BufferBounded
  <2> SUFFICES ASSUME PairInv, NEW s \in Sockets, ~closed[s]
               PROVE  Len(wbuf[s]) <= ReadMax * Size(Other(s[1]))
    BY DEF BufferBounded
  <2>1. Size(Other(s[1])) = 1
    BY DEF PairInv, Size
  <2>2. ReadMax * 1 = ReadMax
    BY SizesAssumption
  <2>3. Len(wbuf[s]) <= ReadMax
    BY DEF PairInv, Drained
  <2> QED
    BY <2>1, <2>2, <2>3, Zenon
<1> QED
  BY <1>1, PairInvHolds, PTL
=============================================================================
