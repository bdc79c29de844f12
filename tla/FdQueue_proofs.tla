---------------------------- MODULE FdQueue_proofs ----------------------------
(***************************************************************************)
(* Proofs about FdQueue, for any number of workers, any finite set of      *)
(* sockets and any capacity of the hint sockets.                           *)
(***************************************************************************)
EXTENDS FdQueue, SequenceTheorems, FiniteSetTheorems, TLAPS

\* What multimap::insert leaves: a list of candidates one longer.
LEMMA InsertByLoadType ==
    ASSUME NEW S, NEW s \in Seq(S), NEW e \in S,
           \A x \in S : x.load \in Nat
    PROVE  /\ InsertByLoad(s, e) \in Seq(S)
           /\ Len(InsertByLoad(s, e)) = Len(s) + 1
<1> DEFINE I == {i \in 1 .. Len(s) : s[i].load <= e.load}
           n == Cardinality(I)
<1>1. Len(s) \in Nat /\ s \in [1 .. Len(s) -> S]
  BY LenProperties
<1>2. IsFiniteSet(1 .. Len(s)) /\ Cardinality(1 .. Len(s)) = Len(s)
  <2>1. \A b \in Int : /\ IsFiniteSet(1 .. b)
                       /\ Cardinality(1 .. b) = IF 1 > b THEN 0 ELSE b - 1 + 1
    BY FS_Interval
  <2> QED
    BY <1>1, <2>1
<1>3. IsFiniteSet(I) /\ n <= Len(s)
  BY <1>2, FS_Subset, I \in SUBSET (1 .. Len(s))
<1>4. n \in Nat
  BY <1>3, FS_CardinalityType
<1> DEFINE a == SubSeq(s, 1, n)
           b == SubSeq(s, n + 1, Len(s))
<1>5. a \in Seq(S) /\ Len(a) = n
  <2> HIDE DEF n
  <2>1. \A i \in 1 .. n : s[i] \in S
    BY <1>1, <1>3, <1>4
  <2>2. a \in Seq(S) /\ Len(a) = IF 1 <= n THEN n - 1 + 1 ELSE 0
    BY <1>4, <2>1, SubSeqProperties
  <2> QED
    BY <1>4, <2>2
<1>6. b \in Seq(S) /\ Len(b) = Len(s) - n
  <2> HIDE DEF n
  <2>1. \A i \in n + 1 .. Len(s) : s[i] \in S
    BY <1>1, <1>3, <1>4
  <2>2. /\ b \in Seq(S)
        /\ Len(b) = IF n + 1 <= Len(s) THEN Len(s) - (n + 1) + 1 ELSE 0
    <3> DEFINE lo == n + 1  hi == Len(s)
    <3>1. lo \in Int /\ hi \in Int /\ \A i \in lo .. hi : s[i] \in S
      BY <1>1, <1>4, <2>1
    <3> HIDE DEF lo, hi
    <3>2. /\ SubSeq(s, lo, hi) \in Seq(S)
          /\ Len(SubSeq(s, lo, hi)) = IF lo <= hi THEN hi - lo + 1 ELSE 0
      BY <3>1, SubSeqProperties
    <3> QED
      BY <3>2 DEF lo, hi
  <2>3. Len(s) \in Nat /\ n \in Nat /\ n <= Len(s)
    BY <1>1, <1>3, <1>4
  <2>4. (IF n + 1 <= Len(s) THEN Len(s) - (n + 1) + 1 ELSE 0) = Len(s) - n
    BY <2>3
  <2> QED
    BY <2>2, <2>4
<1>7. <<e>> \in Seq(S) /\ Len(<<e>>) = 1
  OBVIOUS
<1> HIDE DEF a, b, n
<1>8. a \o <<e>> \in Seq(S) /\ Len(a \o <<e>>) = n + 1
  BY <1>5, <1>7, ConcatProperties
<1>9. /\ a \o <<e>> \o b \in Seq(S)
      /\ Len(a \o <<e>> \o b) = (n + 1) + (Len(s) - n)
  BY <1>6, <1>8, ConcatProperties
<1> QED
  BY <1>1, <1>4, <1>9 DEF InsertByLoad, a, b, n

\* Cardinality of the set of the sub-proxies a worker reports as its load.
LEMMA FdsCardinality ==
    ASSUME NEW T \in SUBSET Fds
    PROVE  IsFiniteSet(T) /\ Cardinality(T) \in Nat
BY FdsAssumption, FS_Subset, FS_CardinalityType


\* Initially nothing is queued, pushed or hinted.
LEMMA InitIndInv == Init => IndInv
<1> SUFFICES ASSUME Init PROVE IndInv
  OBVIOUS
<1>1. TypeOK
  <2>1. \A S : <<>> \in Seq(S)
    BY EmptySeq
  <2> QED
    BY <2>1 DEF Init, TypeOK, SchedulerStates, WorkerStates
<1>2. BusyFd /\ HintsOfPushed /\ NotifyProgress
  BY DEF Init, BusyFd, HintsOfPushed, NotifyProgress, SchedulerBusy
<1>3. FifoOrder
  BY ConcatEmptySeq, EmptySeq DEF Init, FifoOrder
<1>4. HintCoverage
  <2>1. MidPop = {}
    BY DEF Init, MidPop
  <2> QED
    BY <2>1, FS_EmptySet, EmptySeq DEF Init, HintCoverage
<1> QED
  BY <1>1, <1>2, <1>3, <1>4 DEF IndInv

\* The sets that HintCoverage counts are finite.
LEMMA CountedFinite ==
    ASSUME TypeOK
    PROVE  /\ IsFiniteSet(hints) /\ Cardinality(hints) \in Nat
           /\ IsFiniteSet(MidPop) /\ Cardinality(MidPop) \in Nat
           /\ IsFiniteSet(silent) /\ Cardinality(silent) \in Nat
           /\ Len(sq) \in Nat
<1>1. IsFiniteSet(Workers)
  BY NWorkersAssumption, FS_Interval DEF Workers
<1>2. IsFiniteSet(Workers \X Fds)
  BY <1>1, FdsAssumption, FS_Product
<1>3. hints \in SUBSET (Workers \X Fds) /\ MidPop \in SUBSET Workers
  BY DEF TypeOK, MidPop
<1>4. IsFiniteSet(hints) /\ IsFiniteSet(MidPop) /\ IsFiniteSet(silent)
  BY <1>1, <1>2, <1>3, FdsAssumption, FS_Subset DEF TypeOK
<1>5. Len(sq) \in Nat
  BY LenProperties DEF TypeOK
<1> QED
  BY <1>4, <1>5, FS_CardinalityType

\* A step that leaves the queue, the hint bytes, the pushes and the workers
\* between read and pop alone keeps FifoOrder and HintCoverage.
LEMMA QueueUntouched ==
    ASSUME IndInv,
           UNCHANGED <<sq, hints, silent, pushed, popped>>, MidPop' = MidPop
    PROVE  FifoOrder' /\ HintCoverage'
BY DEF IndInv, FifoOrder, HintCoverage

\* A push adds one queued socket and one silent socket.
LEMMA PushEnqueueKeeps ==
    ASSUME IndInv, NEW f \in Fds, PushEnqueue(f)
    PROVE  IndInv'
<1> USE DEF workerVars
<1>1. /\ sq' \in Seq(Fds) /\ Len(sq') = Len(sq) + 1
      /\ pushed' \in Seq(Fds)
  BY AppendProperties DEF PushEnqueue, PushFront, IndInv, TypeOK
<1>2. TypeOK'
  BY <1>1, EmptySeq DEF PushEnqueue, PushFront, IndInv, TypeOK, SchedulerStates
<1>3. BusyFd' /\ HintsOfPushed'
  BY DEF PushEnqueue, PushFront, IndInv, TypeOK, BusyFd, HintsOfPushed
<1>4. NotifyProgress'
  <2>1. spc' = "collect" /\ wsum' = 0 /\ cand' = <<>> /\ sfd' = f
        /\ silent' = silent \cup {f} /\ refused' = refused
        /\ spc = "idle"
    BY DEF PushEnqueue, PushFront
  <2>2. Len(cand') <= NWorkers
    BY <2>1, NWorkersAssumption, EmptySeq
  <2>3. NWorkers >= 2 => silent \subseteq refused
    BY <2>1 DEF IndInv, NotifyProgress, SchedulerBusy
  <2> QED
    BY <2>1, <2>2, <2>3 DEF NotifyProgress, SchedulerBusy
<1>5. FifoOrder'
  <2>1. /\ sq' = sq \o <<f>> /\ pushed' = pushed \o <<f>>
        /\ popped' = popped
    BY AppendIsConcat DEF PushEnqueue, PushFront, IndInv, TypeOK
  <2>2. (popped \o sq) \o <<f>> = popped \o (sq \o <<f>>)
    BY ConcatAssociative, <<f>> \in Seq(Fds) DEF IndInv, TypeOK
  <2> QED
    BY <2>1, <2>2 DEF IndInv, FifoOrder
<1>6. HintCoverage'
  <2>1. f \notin silent
    BY DEF PushEnqueue, PushFront, IndInv, HintsOfPushed
  <2>2. Cardinality(silent') = Cardinality(silent) + 1
    BY <2>1, CountedFinite, FS_AddElement DEF PushEnqueue, PushFront, IndInv
  <2>3. hints' = hints /\ MidPop' = MidPop
    BY DEF PushEnqueue, PushFront, MidPop
  <2> QED
    BY <1>1, <2>2, <2>3, CountedFinite DEF IndInv, HintCoverage
<1> QED
  BY <1>2, <1>3, <1>4, <1>5, <1>6 DEF IndInv

\* Collecting candidates leaves the queue and the hints alone, and lists every
\* worker before the notification starts.
LEMMA PushCollectKeeps ==
    ASSUME IndInv, PushCollect
    PROVE  IndInv'
<1> DEFINE E == [load : Nat, id : Workers]
<1> USE DEF queueVars, workerVars, ghostVars
<1>1. spc = "collect" /\ wsum = 0 /\ Len(cand) <= NWorkers
  BY DEF PushCollect, IndInv, NotifyProgress
<1>2. Len(cand) \in Nat /\ cand \in Seq(E)
  BY LenProperties DEF IndInv, TypeOK
<1>3. UNCHANGED <<fresh, sq, hints, load, feedback, sfd, wsum, wpc, wfd, dead,
                  proxies, stopped, closed, pushed, popped, silent, refused>>
  BY DEF PushCollect
<1>4. FifoOrder' /\ HintCoverage'
  BY <1>3, QueueUntouched DEF MidPop
<1>5. /\ cand' \in Seq(E)
      /\ spc' = "collect" => Len(cand') <= NWorkers
      /\ spc' = "notify" => Len(cand') = NWorkers
      /\ spc' \in {"collect", "notify"}
  <2>1. CASE Len(cand) \in Workers
    <3> DEFINE e == [load |-> load[Len(cand)], id |-> Len(cand)]
    <3>1. e \in E
      BY <2>1 DEF IndInv, TypeOK
    <3>2. cand' = InsertByLoad(cand, e) /\ spc' = "collect"
      BY <1>1, <2>1 DEF PushCollect
    <3> HIDE DEF e
    <3>3. cand' \in Seq(E) /\ Len(cand') = Len(cand) + 1
      <4>1. \A x \in E : x.load \in Nat
        OBVIOUS
      <4> HIDE DEF E
      <4> QED
        BY <1>2, <3>1, <3>2, <4>1, InsertByLoadType
    <3> QED
      BY <1>2, <2>1, <3>2, <3>3, NWorkersAssumption DEF Workers
  <2>2. CASE Len(cand) \notin Workers
    <3>1. cand' = cand /\ spc' = "notify"
      BY <2>2 DEF PushCollect
    <3>2. Len(cand) = NWorkers
      BY <1>1, <1>2, <2>2, NWorkersAssumption DEF Workers
    <3> QED
      BY <1>2, <3>1, <3>2
  <2> QED
    BY <2>1, <2>2
<1>6. TypeOK'
  BY <1>3, <1>5 DEF IndInv, TypeOK, SchedulerStates
<1>7. BusyFd' /\ HintsOfPushed'
  BY <1>1, <1>3 DEF IndInv, BusyFd, HintsOfPushed, SchedulerBusy
<1>8. NotifyProgress'
  BY <1>1, <1>3, <1>5 DEF IndInv, NotifyProgress, SchedulerBusy
<1> QED
  BY <1>4, <1>6, <1>7, <1>8 DEF IndInv

\* push_all returns only after a first attempt to write a hint byte, when there
\* are two workers or more.
LEMMA PushReturnKeeps ==
    ASSUME IndInv, PushReturn
    PROVE  IndInv'
<1> USE DEF queueVars, workerVars, ghostVars
<1>1. FifoOrder' /\ HintCoverage'
  BY QueueUntouched DEF PushReturn, MidPop
<1>2. TypeOK' /\ BusyFd' /\ HintsOfPushed'
  BY EmptySeq DEF PushReturn, IndInv, TypeOK, BusyFd, HintsOfPushed,
                  SchedulerBusy, SchedulerStates
<1>3. NotifyProgress'
  <2>1. /\ spc = "notify" /\ spc' = "idle"
        /\ silent' = silent /\ refused' = refused
    BY DEF PushReturn
  <2>2. ASSUME NWorkers >= 2 PROVE wsum > 0
    <3>1. Len(<<>>) = 0
      BY EmptySeq
    <3>2. wsum = 0 => cand # <<>>
      BY <2>1, <2>2, <3>1, NWorkersAssumption DEF IndInv, NotifyProgress
    <3>3. ~(1 > NWorkers \div 2)
      BY <2>2, NWorkersAssumption
    <3> QED
      BY <3>2, <3>3 DEF PushReturn, NotifyDone, IndInv, TypeOK
  <2>3. NWorkers >= 2 => silent \subseteq refused
    BY <2>1, <2>2 DEF IndInv, NotifyProgress, SchedulerBusy
  <2> QED
    BY <2>1, <2>3 DEF NotifyProgress, SchedulerBusy
<1> QED
  BY <1>1, <1>2, <1>3 DEF IndInv

\* A write makes a silent socket a hinted one, or records the refusal.
LEMMA PushWriteKeeps ==
    ASSUME IndInv, PushWrite
    PROVE  IndInv'
<1> DEFINE E == [load : Nat, id : Workers]
           w == Head(cand).id
<1> USE DEF queueVars, workerVars, ghostVars
<1>1. /\ spc = "notify" /\ spc' = "check" /\ cand' = Tail(cand) /\ cand # <<>>
      /\ UNCHANGED <<fresh, sq, load, feedback, sfd, wpc, wfd, dead, proxies,
                     stopped, closed, pushed, popped>>
  BY DEF PushWrite, NotifyDone
<1>2. sfd \in Fds \ fresh
  BY <1>1 DEF IndInv, BusyFd, SchedulerBusy
<1>3. w \in Workers /\ Tail(cand) \in Seq(E)
  <2>1. cand \in Seq(E)
    BY DEF IndInv, TypeOK
  <2>2. Head(cand) \in E /\ Tail(cand) \in Seq(E)
    <3> HIDE DEF E
    <3> QED
      BY <1>1, <2>1, HeadTailProperties
  <2> QED
    BY <2>2
<1>4. MidPop' = MidPop /\ FifoOrder'
  BY <1>1 DEF MidPop, IndInv, FifoOrder
<1> HIDE DEF w, E
<1>5. CASE PipeFull(w)
  <2>1. /\ wsum' = wsum + 1 /\ refused' = refused \cup {sfd}
        /\ hints' = hints /\ silent' = silent
    BY <1>5 DEF PushWrite, w
  <2>2. TypeOK'
    BY <1>1, <1>2, <1>3, <2>1 DEF IndInv, TypeOK, SchedulerStates, E
  <2>3. BusyFd' /\ HintsOfPushed' /\ HintCoverage'
    BY <1>1, <1>2, <1>4, <2>1 DEF IndInv, BusyFd, HintsOfPushed, HintCoverage
  <2>4. NotifyProgress'
    BY <1>1, <2>1 DEF IndInv, TypeOK, NotifyProgress, SchedulerBusy
  <2> QED
    BY <1>4, <2>2, <2>3, <2>4 DEF IndInv
<1>6. CASE ~PipeFull(w)
  <2>1. /\ wsum' = wsum + 2 /\ refused' = refused
        /\ hints' = hints \cup {<<w, sfd>>} /\ silent' = silent \ {sfd}
    BY <1>6 DEF PushWrite, w
  <2>2. TypeOK'
    BY <1>1, <1>2, <1>3, <2>1 DEF IndInv, TypeOK, SchedulerStates, E
  <2>3. BusyFd' /\ HintsOfPushed'
    BY <1>1, <1>2, <2>1 DEF IndInv, BusyFd, HintsOfPushed
  <2>4. NotifyProgress'
    BY <1>1, <2>1 DEF IndInv, TypeOK, NotifyProgress, SchedulerBusy
  <2>5. HintCoverage'
    \* the byte makes up for the socket that is no longer silent
    <3>1. /\ Cardinality(hints') = IF <<w, sfd>> \in hints
                                   THEN Cardinality(hints)
                                   ELSE Cardinality(hints) + 1
          /\ Cardinality(silent') = IF sfd \in silent
                                    THEN Cardinality(silent) - 1
                                    ELSE Cardinality(silent)
      BY <2>1, CountedFinite, FS_AddElement, FS_RemoveElement DEF IndInv
    <3>2. sfd \in silent => <<w, sfd>> \notin hints
      <4> SUFFICES ASSUME <<w, sfd>> \in hints PROVE sfd \notin silent
        OBVIOUS
      <4>1. \A h \in hints : h[2] \notin fresh \cup silent
        BY DEF IndInv, HintsOfPushed
      <4> QED
        BY <4>1
    <3> QED
      BY <1>1, <1>4, <3>1, <3>2, CountedFinite DEF IndInv, HintCoverage
  <2> QED
    BY <1>4, <2>2, <2>3, <2>4, <2>5 DEF IndInv
<1> QED
  BY <1>5, <1>6

\* The feedback flag is looked at only after a write.
LEMMA PushFeedbackKeeps ==
    ASSUME IndInv, PushCheckFeedback \/ PushResetFeedback
    PROVE  IndInv'
<1> USE DEF queueVars, workerVars, ghostVars
<1>1. FifoOrder' /\ HintCoverage'
  BY QueueUntouched DEF PushCheckFeedback, PushResetFeedback, MidPop
<1>2. TypeOK'
  <2>1. CASE PushCheckFeedback
    BY <2>1 DEF PushCheckFeedback, IndInv, TypeOK, SchedulerStates
  <2>2. CASE PushResetFeedback
    <3>1. cand' \in Seq([load : Nat, id : Workers])
      BY <2>2, EmptySeq DEF PushResetFeedback
    <3> QED
      BY <2>2, <3>1 DEF PushResetFeedback, IndInv, TypeOK, SchedulerStates
  <2> QED
    BY <2>1, <2>2
<1>4. BusyFd' /\ HintsOfPushed'
  BY DEF PushCheckFeedback, PushResetFeedback, IndInv, BusyFd, HintsOfPushed,
         SchedulerBusy
<1>3. NotifyProgress'
  BY DEF PushCheckFeedback, PushResetFeedback, IndInv, TypeOK, NotifyProgress,
         SchedulerBusy
<1> QED
  BY <1>1, <1>2, <1>3, <1>4 DEF IndInv

\* Stopping and joining change neither the queue nor the hints.
LEMMA StopJoinKeeps ==
    ASSUME IndInv, Stop \/ JoinMark \/ JoinWait
    PROVE  IndInv'
<1> USE DEF queueVars, schedVars, workerVars, ghostVars
<1>1. FifoOrder' /\ HintCoverage'
  BY QueueUntouched DEF Stop, JoinMark, JoinWait, MidPop
<1>2. TypeOK'
  <2>1. CASE Stop
    BY <2>1 DEF Stop, IndInv, TypeOK
  <2>2. CASE JoinMark
    BY <2>2 DEF JoinMark, IndInv, TypeOK, SchedulerStates
  <2>3. CASE JoinWait
    BY <2>3 DEF JoinWait, IndInv, TypeOK, SchedulerStates
  <2> QED
    BY <2>1, <2>2, <2>3
<1>3. BusyFd' /\ HintsOfPushed' /\ NotifyProgress'
  BY DEF Stop, JoinMark, JoinWait, IndInv, BusyFd, HintsOfPushed,
         NotifyProgress, SchedulerBusy
<1> QED
  BY <1>1, <1>2, <1>3 DEF IndInv

\* A byte that is read turns into a worker on its way to the deque.
LEMMA WorkerReadHintKeeps ==
    ASSUME IndInv, NEW w \in Workers, WorkerReadHint(w)
    PROVE  IndInv'
<1> USE DEF schedVars, ghostVars
<1>1. PICK h \in hints : hints' = hints \ {h}
  BY DEF WorkerReadHint
<1>2. /\ wpc[w] = "read" /\ wpc' = [wpc EXCEPT ![w] = "lock"]
      /\ UNCHANGED <<fresh, sq, load, feedback, spc, sfd, cand, wsum, wfd, dead,
                     proxies, stopped, closed, pushed, popped, silent, refused>>
  BY DEF WorkerReadHint
<1>3. TypeOK'
  BY <1>1, <1>2 DEF IndInv, TypeOK, WorkerStates
<1>4. BusyFd' /\ HintsOfPushed' /\ NotifyProgress' /\ FifoOrder'
  BY <1>1, <1>2 DEF IndInv, BusyFd, HintsOfPushed, NotifyProgress,
                    SchedulerBusy, FifoOrder
<1>5. HintCoverage'
  <2>1. MidPop' = MidPop \cup {w} /\ w \notin MidPop
    BY <1>2 DEF MidPop, IndInv, TypeOK
  <2>2. Cardinality(MidPop') = Cardinality(MidPop) + 1
    BY <2>1, CountedFinite, FS_AddElement DEF IndInv
  <2>3. Cardinality(hints') = Cardinality(hints) - 1
    BY <1>1, CountedFinite, FS_RemoveElement DEF IndInv
  <2> QED
    BY <1>2, <2>2, <2>3, CountedFinite DEF IndInv, HintCoverage
<1> QED
  BY <1>3, <1>4, <1>5 DEF IndInv

\* A pop takes away one queued socket and one worker on its way.
LEMMA WorkerPopKeeps ==
    ASSUME IndInv, NEW w \in Workers, WorkerPop(w)
    PROVE  IndInv'
<1> USE DEF schedVars
<1>1. /\ wpc[w] = "lock" /\ wpc' = [wpc EXCEPT ![w] = "serve"]
      /\ UNCHANGED <<fresh, hints, load, spc, sfd, cand, wsum, dead, proxies,
                     stopped, closed, pushed, silent, refused>>
  BY DEF WorkerPop, PopBack, SqEmpty
<1>2. BusyFd' /\ HintsOfPushed' /\ NotifyProgress'
  BY <1>1 DEF IndInv, BusyFd, HintsOfPushed, NotifyProgress, SchedulerBusy
<1>3. /\ Cardinality(MidPop') = Cardinality(MidPop) - 1
      /\ Cardinality(MidPop') \in Nat
  <2>1. MidPop' = MidPop \ {w} /\ w \in MidPop
    BY <1>1 DEF MidPop, IndInv, TypeOK
  <2> QED
    BY <2>1, CountedFinite, FS_RemoveElement, FS_CardinalityType DEF IndInv
<1>4. CASE sq = <<>>
  <2>1. feedback' = TRUE /\ UNCHANGED <<sq, wfd, popped>>
    BY <1>4 DEF WorkerPop, PopBack, SqEmpty
  <2>2. TypeOK' /\ FifoOrder'
    BY <1>1, <2>1 DEF IndInv, TypeOK, WorkerStates, FifoOrder
  <2>3. Len(sq') = 0
    BY <1>4, <2>1, EmptySeq
  <2>4. HintCoverage'
    BY <1>1, <1>3, <2>3, CountedFinite DEF IndInv, HintCoverage
  <2> QED
    BY <1>2, <2>2, <2>4 DEF IndInv
<1>5. CASE sq # <<>>
  <2>1. /\ wfd' = [wfd EXCEPT ![w] = Head(sq)] /\ sq' = Tail(sq)
        /\ popped' = Append(popped, Head(sq))
        /\ feedback' = (feedback \/ Tail(sq) = <<>>)
    BY <1>5 DEF WorkerPop, PopBack, SqEmpty
  <2>2. Head(sq) \in Fds /\ Tail(sq) \in Seq(Fds) /\ Len(Tail(sq)) = Len(sq) - 1
    BY <1>5, HeadTailProperties DEF IndInv, TypeOK
  <2>3. popped' \in Seq(Fds)
    BY <2>1, <2>2, AppendProperties DEF IndInv, TypeOK
  <2>4. feedback' \in BOOLEAN
    BY <2>1
  <2>5. TypeOK'
    BY <1>1, <2>1, <2>2, <2>3, <2>4 DEF IndInv, TypeOK, WorkerStates
  <2>6. FifoOrder'
    <3>1. sq = <<Head(sq)>> \o Tail(sq)
      BY <1>5 DEF IndInv, TypeOK
    <3>2. popped' = popped \o <<Head(sq)>>
      BY <2>1, <2>2, AppendIsConcat DEF IndInv, TypeOK
    <3>3. (popped \o <<Head(sq)>>) \o Tail(sq)
             = popped \o (<<Head(sq)>> \o Tail(sq))
      <4> DEFINE a == <<Head(sq)>>  t == Tail(sq)
      <4>1. popped \in Seq(Fds) /\ a \in Seq(Fds) /\ t \in Seq(Fds)
        BY <2>2 DEF IndInv, TypeOK
      <4> HIDE DEF a, t
      <4>2. (popped \o a) \o t = popped \o (a \o t)
        BY <4>1, ConcatAssociative
      <4> QED
        BY <4>2 DEF a, t
    <3> QED
      BY <1>1, <2>1, <3>1, <3>2, <3>3 DEF IndInv, FifoOrder
  <2>7. HintCoverage'
    BY <1>1, <1>3, <2>1, <2>2, CountedFinite DEF IndInv, HintCoverage
  <2> QED
    BY <1>2, <2>5, <2>6, <2>7 DEF IndInv
<1> QED
  BY <1>4, <1>5

\* The other steps of a worker change neither the queue nor the hints.
LEMMA WorkerOtherKeeps ==
    ASSUME IndInv, NEW w \in Workers,
           \/ WorkerWake(w) \/ WorkerServe(w) \/ WorkerExit(w)
           \/ \E f \in Fds : WorkerProxyDone(w, f)
    PROVE  IndInv'
<1> USE DEF queueVars, schedVars, ghostVars
<1>1. UNCHANGED <<fresh, sq, hints, feedback, spc, sfd, cand, wsum, stopped,
                  pushed, popped, silent, refused>>
  BY DEF WorkerWake, WorkerServe, WorkerExit, WorkerProxyDone
<1>2. MidPop' = MidPop
  BY DEF WorkerWake, WorkerServe, WorkerExit, WorkerProxyDone, MidPop, IndInv,
         TypeOK
<1>3. TypeOK'
  <2>1. CASE WorkerWake(w)
    BY <2>1, FdsCardinality DEF WorkerWake, IndInv, TypeOK, WorkerStates
  <2>2. CASE WorkerServe(w)
    <3>1. /\ proxies' \in [Workers -> SUBSET Fds]
          /\ closed' \in SUBSET Fds
      <4> DEFINE new == IF wfd[w] = NoFd THEN {} ELSE {wfd[w]}
      <4>1. new \subseteq Fds /\ proxies[w] \subseteq Fds /\ closed \subseteq Fds
        BY DEF IndInv, TypeOK
      <4>2. \E P \in SUBSET Fds, C \in SUBSET Fds :
               proxies' = [proxies EXCEPT ![w] = P] /\ closed' = closed \cup C
        <5>1. PICK accepted \in BOOLEAN :
                 LET kept == IF accepted THEN proxies[w] \cup new ELSE proxies[w]
                     lost == IF accepted THEN {} ELSE new
                 IN  IF dead[w]
                     THEN /\ proxies' = [proxies EXCEPT ![w] = {}]
                          /\ closed' = closed \cup kept \cup lost
                     ELSE /\ proxies' = [proxies EXCEPT ![w] = kept]
                          /\ closed' = closed \cup lost
          BY <2>2 DEF WorkerServe
        <5> DEFINE kept == IF accepted THEN proxies[w] \cup new ELSE proxies[w]
                   lost == IF accepted THEN {} ELSE new
        <5>2. kept \in SUBSET Fds /\ lost \in SUBSET Fds
          BY <4>1
        <5>3. CASE dead[w]
          <6>1. /\ proxies' = [proxies EXCEPT ![w] = {}]
                /\ closed' = closed \cup (kept \cup lost)
            BY <5>1, <5>3
          <6> HIDE DEF kept, lost
          <6> QED
            BY <5>2, <6>1
        <5>4. CASE ~dead[w]
          <6>1. /\ proxies' = [proxies EXCEPT ![w] = kept]
                /\ closed' = closed \cup lost
            BY <5>1, <5>4
          <6> HIDE DEF kept, lost
          <6> QED
            BY <5>2, <6>1
        <5> QED
          BY <5>3, <5>4
      <4> QED
        BY <4>1, <4>2 DEF IndInv, TypeOK
    <3>2. /\ wfd' = [wfd EXCEPT ![w] = NoFd]
          /\ wpc' = [wpc EXCEPT ![w] = "poll"]
          /\ load' = load /\ dead' = dead
      BY <2>2 DEF WorkerServe
    <3> QED
      BY <1>1, <3>1, <3>2 DEF IndInv, TypeOK, WorkerStates
  <2>3. CASE WorkerExit(w)
    BY <2>3 DEF WorkerExit, IndInv, TypeOK, WorkerStates
  <2>4. ASSUME NEW f \in Fds, WorkerProxyDone(w, f) PROVE TypeOK'
    BY <2>4 DEF WorkerProxyDone, IndInv, TypeOK, WorkerStates
  <2> QED
    BY <2>1, <2>2, <2>3, <2>4
<1>4. FifoOrder' /\ HintCoverage'
  BY <1>1, <1>2, QueueUntouched
<1>5. BusyFd' /\ HintsOfPushed' /\ NotifyProgress'
  BY <1>1 DEF IndInv, BusyFd, HintsOfPushed, NotifyProgress, SchedulerBusy
<1> QED
  BY <1>3, <1>4, <1>5 DEF IndInv

\* Every step of the acceptor and of the workers keeps the invariant.
LEMMA NextIndInv == IndInv /\ [Next]_vars => IndInv'
<1> SUFFICES ASSUME IndInv, [Next]_vars PROVE IndInv'
  OBVIOUS
<1>1. CASE UNCHANGED vars
  <2>1. UNCHANGED <<fresh, sq, hints, load, feedback, spc, sfd, cand, wsum, wpc,
                    wfd, dead, stopped, proxies, closed, pushed, popped,
                    silent, refused>>
    BY <1>1 DEF vars, queueVars, schedVars, workerVars, ghostVars
  <2> QED
    BY <2>1 DEF IndInv, TypeOK, BusyFd, HintsOfPushed, NotifyProgress,
                SchedulerBusy, FifoOrder, HintCoverage, MidPop
<1>2. CASE SchedulerNext
  BY <1>2, PushCollectKeeps, PushReturnKeeps, PushWriteKeeps, PushFeedbackKeeps,
     StopJoinKeeps DEF SchedulerNext
<1>3. ASSUME NEW w \in Workers, WorkerNext(w) PROVE IndInv'
  BY <1>3, WorkerReadHintKeeps, WorkerPopKeeps, WorkerOtherKeeps DEF WorkerNext
<1>4. ASSUME NEW w \in Workers, NEW f \in Fds, WorkerProxyDone(w, f)
      PROVE  IndInv'
  BY <1>4, WorkerOtherKeeps
<1> QED
  BY <1>1, <1>2, <1>3, <1>4, PushEnqueueKeeps, StopJoinKeeps DEF Next

\* The invariant of queue and hints holds in every reachable state.
LEMMA IndInvHolds == Spec => []IndInv
BY InitIndInv, NextIndInv, PTL DEF Spec

\* The variables keep their types: in particular the candidates always name
\* workers, so push_all never writes to a hint socket that does not exist.
THEOREM TypeCorrect == Spec => []TypeOK
<1>1. IndInv => TypeOK
  BY DEF IndInv
<1> QED
  BY <1>1, IndInvHolds, PTL

\* Sockets leave the queue in the order in which they were accepted.
THEOREM ServedInOrder == Spec => []FifoOrder
<1>1. IndInv => FifoOrder
  BY DEF IndInv
<1> QED
  BY <1>1, IndInvHolds, PTL

\* Hint bytes, pops under way and pushes without a hint account for every
\* queued socket.
THEOREM QueueIsHinted == Spec => []HintCoverage
<1>1. IndInv => HintCoverage
  BY DEF IndInv
<1> QED
  BY <1>1, IndInvHolds, PTL

\* With two workers or more, a finished push_all wrote a hint byte or was
\* refused by a full hint socket.
THEOREM PushIsHinted == Spec => []SilentOnlyIfRefused
<1>1. IndInv => SilentOnlyIfRefused
  BY DEF IndInv, NotifyProgress, SchedulerBusy, SilentOnlyIfRefused
<1> QED
  BY <1>1, IndInvHolds, PTL

-----------------------------------------------------------------------------
(* Every socket has one owner, and the hand-over specification.            *)

\* Pushing adds one socket to the deque.
LEMMA QueuedPush ==
    ASSUME TypeOK, NEW f \in Fds, sq' = Append(sq, f)
    PROVE  /\ Queued' = Queued \cup {f}
           /\ \A i \in 1 .. Len(sq) : sq'[i] = sq[i]
           /\ sq'[Len(sq) + 1] = f
           /\ Len(sq') = Len(sq) + 1
           /\ Len(sq) \in Nat
<1>1. /\ Len(sq') = Len(sq) + 1
      /\ \A i \in 1 .. Len(sq) : sq'[i] = sq[i]
      /\ sq'[Len(sq) + 1] = f
      /\ Len(sq) \in Nat
  BY AppendProperties, LenProperties DEF TypeOK
<1>2. 1 .. Len(sq') = (1 .. Len(sq)) \cup {Len(sq) + 1}
  BY <1>1
<1>3. Queued' = {sq'[i] : i \in 1 .. Len(sq')}
  BY DEF Queued
<1> QED
  BY <1>1, <1>2, <1>3 DEF Queued

\* Popping removes the oldest socket and, without duplicates, only that one.
LEMMA QueuedPop ==
    ASSUME TypeOK, sq # <<>>, sq' = Tail(sq),
           \A i, j \in 1 .. Len(sq) : sq[i] = sq[j] => i = j
    PROVE  /\ Queued' = Queued \ {Head(sq)}
           /\ Head(sq) \in Queued
           /\ \A i, j \in 1 .. Len(sq') : sq'[i] = sq'[j] => i = j
<1>1. /\ Len(sq) \in Nat \ {0} /\ Len(sq') = Len(sq) - 1
      /\ \A i \in 1 .. Len(sq') : sq'[i] = sq[i + 1]
      /\ Head(sq) = sq[1]
  BY HeadTailProperties, EmptySeq DEF TypeOK
<1>2. Queued' = {sq'[i] : i \in 1 .. Len(sq')}
  BY DEF Queued
<1>3. Head(sq) \in Queued
  BY <1>1 DEF Queued
<1>4. \A i, j \in 1 .. Len(sq') : sq'[i] = sq'[j] => i = j
  <2> SUFFICES ASSUME NEW i \in 1 .. Len(sq'), NEW j \in 1 .. Len(sq'),
                      sq'[i] = sq'[j]
               PROVE  i = j
    OBVIOUS
  <2>1. sq[i + 1] = sq[j + 1] /\ i + 1 \in 1 .. Len(sq) /\ j + 1 \in 1 .. Len(sq)
    BY <1>1
  <2> QED
    BY <1>1, <2>1
<1>5. Queued' \subseteq Queued \ {Head(sq)}
  <2> SUFFICES ASSUME NEW i \in 1 .. Len(sq') PROVE sq'[i] \in Queued \ {sq[1]}
    BY <1>1, <1>2
  <2>1. sq'[i] = sq[i + 1] /\ i + 1 \in 1 .. Len(sq) /\ i + 1 # 1
        /\ 1 \in 1 .. Len(sq)
    BY <1>1
  <2>2. sq[i + 1] # sq[1]
    BY <2>1
  <2> QED
    BY <2>1, <2>2 DEF Queued
<1>6. Queued \ {Head(sq)} \subseteq Queued'
  <2> SUFFICES ASSUME NEW i \in 1 .. Len(sq), sq[i] # sq[1] PROVE sq[i] \in Queued'
    BY <1>1 DEF Queued
  <2>1. i - 1 \in 1 .. Len(sq') /\ i \in Int
    BY <1>1
  <2>2. sq'[i - 1] = sq[(i - 1) + 1] /\ (i - 1) + 1 = i
    BY <1>1, <2>1
  <2> QED
    BY <1>2, <2>1, <2>2
<1> QED
  BY <1>3, <1>4, <1>5, <1>6

OwnInv == OwnedOnce /\ HeldWhileServing

\* A worker w gives up the sockets in C: they are closed, nothing else moves.
Releases(w, C) ==
    /\ C \subseteq HeldBy(w)
    /\ HeldBy(w)' = HeldBy(w) \ C
    /\ \A v \in Workers \ {w} : HeldBy(v)' = HeldBy(v)
    /\ closed' = closed \cup C
    /\ fresh' = fresh /\ sq' = sq

\* Releasing keeps every socket with one owner and is a step of Handover.
LEMMA ReleaseKeeps ==
    ASSUME OwnedOnce, NEW w \in Workers, NEW C, Releases(w, C),
           \A v \in Workers : wfd'[v] \notin proxies'[v]
    PROVE  OwnedOnce' /\ H!Close(C) /\ C \subseteq Fds
<1>1. Queued' = Queued
  BY DEF Releases, Queued
<1>2. Held' = Held \ C /\ C \subseteq Held
  <2>1. \A v \in Workers : HeldBy(v)' = HeldBy(v) \ C
    BY DEF Releases, OwnedOnce
  <2>2. Held' = UNION {HeldBy(v)' : v \in Workers}
    BY DEF Held
  <2> QED
    BY <2>1, <2>2 DEF Held, Releases
<1>3. OwnedOnce'
  <2>1. \A i, j \in 1 .. Len(sq') : sq'[i] = sq'[j] => i = j
    BY DEF OwnedOnce, Releases
  <2>2. \A v, u \in Workers : v # u => HeldBy(v)' \cap HeldBy(u)' = {}
    BY DEF OwnedOnce, Releases
  <2>3. /\ Fds = fresh' \cup Queued' \cup Held' \cup closed'
        /\ fresh' \cap (Queued' \cup Held' \cup closed') = {}
        /\ Queued' \cap (Held' \cup closed') = {}
        /\ Held' \cap closed' = {}
    BY <1>1, <1>2 DEF OwnedOnce, Releases
  <2> QED
    BY <2>1, <2>2, <2>3 DEF OwnedOnce
<1>4. C \subseteq Fds
  BY <1>2 DEF OwnedOnce
<1>5. \A f \in C : StatusOf(f) = "served"
  BY <1>2 DEF OwnedOnce, StatusOf
<1>6. \A f \in Fds : StatusOf(f)' = IF f \in C THEN "closed" ELSE StatusOf(f)
  BY <1>1, <1>2 DEF OwnedOnce, StatusOf, Releases
<1>7. H!Close(C)
  BY <1>4, <1>5, <1>6 DEF H!Close, Releases
<1> QED
  BY <1>3, <1>4, <1>7

\* A step that moves no socket.
LEMMA NothingMoves ==
    ASSUME OwnedOnce, UNCHANGED <<fresh, sq, wfd, proxies, closed>>
    PROVE  OwnedOnce' /\ UNCHANGED H!vars
BY DEF OwnedOnce, Queued, Held, HeldBy, StatusOf, H!vars

\* A push is an arrival of the abstract hand-over.
LEMMA PushEnqueueHands ==
    ASSUME IndInv, OwnInv, NEW f \in Fds, PushEnqueue(f)
    PROVE  OwnInv' /\ H!Arrive(f)
<1> USE DEF workerVars
<1>1. /\ f \in fresh /\ fresh' = fresh \ {f} /\ sq' = Append(sq, f)
      /\ UNCHANGED <<wfd, wpc, proxies, closed>>
  BY DEF PushEnqueue, PushFront
<1>2. /\ Queued' = Queued \cup {f}
      /\ \A i \in 1 .. Len(sq) : sq'[i] = sq[i]
      /\ sq'[Len(sq) + 1] = f
      /\ Len(sq') = Len(sq) + 1
      /\ Len(sq) \in Nat
  BY <1>1, QueuedPush DEF IndInv
<1>3. Held' = Held /\ \A w \in Workers : HeldBy(w)' = HeldBy(w)
  BY <1>1 DEF Held, HeldBy
<1>4. \A i, j \in 1 .. Len(sq') : sq'[i] = sq'[j] => i = j
  <2>1. \A i \in 1 .. Len(sq) : sq[i] # f
    BY <1>1 DEF OwnInv, OwnedOnce, Queued
  <2>2. \A i, j \in 1 .. Len(sq) : sq[i] = sq[j] => i = j
    BY DEF OwnInv, OwnedOnce
  <2> QED
    BY <1>2, <2>1, <2>2
<1>5. /\ Fds = fresh' \cup Queued' \cup Held' \cup closed'
      /\ fresh' \cap (Queued' \cup Held' \cup closed') = {}
      /\ Queued' \cap (Held' \cup closed') = {}
      /\ Held' \cap closed' = {}
  BY <1>1, <1>2, <1>3 DEF OwnInv, OwnedOnce
<1>6. OwnInv'
  <2>1. \A v, w \in Workers : v # w => HeldBy(v)' \cap HeldBy(w)' = {}
    BY <1>3 DEF OwnInv, OwnedOnce
  <2>2. HeldWhileServing' /\ \A w \in Workers : wfd'[w] \notin proxies'[w]
    BY <1>1 DEF OwnInv, OwnedOnce, HeldWhileServing
  <2> QED
    BY <1>4, <1>5, <2>1, <2>2 DEF OwnInv, OwnedOnce
<1>7. StatusOf(f) = "arriving"
  BY <1>1 DEF StatusOf, OwnInv, OwnedOnce
<1>8. \A g \in Fds : StatusOf(g)' = IF g = f THEN "waiting" ELSE StatusOf(g)
  BY <1>1, <1>2 DEF StatusOf, OwnInv, OwnedOnce
<1> QED
  BY <1>1, <1>6, <1>7, <1>8 DEF H!Arrive

\* A pop of a socket gives the first in line to a worker.
LEMMA WorkerPopHands ==
    ASSUME IndInv, OwnInv, NEW w \in Workers, WorkerPop(w)
    PROVE  OwnInv' /\ (H!Give \/ UNCHANGED H!vars)
<1>1. /\ wpc[w] = "lock" /\ wpc' = [wpc EXCEPT ![w] = "serve"]
      /\ UNCHANGED <<fresh, proxies, closed>>
  BY DEF WorkerPop, PopBack, SqEmpty
<1>2. CASE sq = <<>>
  <2>1. UNCHANGED <<sq, wfd>>
    BY <1>2 DEF WorkerPop, PopBack, SqEmpty
  <2>2. HeldWhileServing'
    BY <1>1, <2>1 DEF IndInv, TypeOK, OwnInv, HeldWhileServing
  <2> QED
    BY <1>1, <2>1, <2>2, NothingMoves DEF OwnInv
<1>3. CASE sq # <<>>
  <2> DEFINE f == Head(sq)
  <2>1. wfd' = [wfd EXCEPT ![w] = f] /\ sq' = Tail(sq)
    BY <1>3 DEF WorkerPop, PopBack, SqEmpty
  <2>2. wfd[w] = NoFd
    BY <1>1 DEF OwnInv, HeldWhileServing
  <2>3. /\ Queued' = Queued \ {f} /\ f \in Queued
        /\ \A i, j \in 1 .. Len(sq') : sq'[i] = sq'[j] => i = j
    BY <1>3, <2>1, QueuedPop DEF IndInv, OwnInv, OwnedOnce
  <2>4. f \in Fds /\ f # NoFd
    BY <2>3, NoFdAssumption DEF OwnInv, OwnedOnce
  <2> HIDE DEF f
  <2>5. /\ HeldBy(w)' = HeldBy(w) \cup {f}
        /\ \A v \in Workers \ {w} : HeldBy(v)' = HeldBy(v)
    BY <1>1, <2>1, <2>2, <2>4 DEF HeldBy, IndInv, TypeOK
  <2>6. Held' = Held \cup {f}
    <3>1. Held' = UNION {HeldBy(v)' : v \in Workers}
      BY DEF Held
    <3> QED
      BY <2>5, <3>1 DEF Held
  <2>7. f \notin Held /\ f \notin closed /\ f \notin fresh
    BY <2>3 DEF OwnInv, OwnedOnce
  <2>8. \A v, u \in Workers : v # u => HeldBy(v)' \cap HeldBy(u)' = {}
    <3>1. \A v \in Workers : f \notin HeldBy(v)
      BY <2>7 DEF Held
    <3>2. \A v, u \in Workers : v # u => HeldBy(v) \cap HeldBy(u) = {}
      BY DEF OwnInv, OwnedOnce
    <3> QED
      BY <2>5, <3>1, <3>2
  <2>9. \A v \in Workers : wfd'[v] \notin proxies'[v]
    <3>1. f \notin proxies[w]
      BY <2>7 DEF Held, HeldBy
    <3> QED
      BY <1>1, <2>1, <3>1 DEF IndInv, TypeOK, OwnInv, OwnedOnce
  <2>10. /\ Fds = fresh' \cup Queued' \cup Held' \cup closed'
         /\ fresh' \cap (Queued' \cup Held' \cup closed') = {}
         /\ Queued' \cap (Held' \cup closed') = {}
         /\ Held' \cap closed' = {}
    BY <1>1, <2>3, <2>6, <2>7 DEF OwnInv, OwnedOnce
  <2>11. HeldWhileServing'
    BY <1>1, <2>1 DEF IndInv, TypeOK, OwnInv, HeldWhileServing
  <2>12. OwnInv'
    BY <2>3, <2>8, <2>9, <2>10, <2>11 DEF OwnInv, OwnedOnce
  <2>13. StatusOf(f) = "waiting"
    BY <2>3, <2>7 DEF StatusOf
  <2>14. \A g \in Fds : StatusOf(g)' = IF g = f THEN "served" ELSE StatusOf(g)
    BY <1>1, <2>3, <2>7 DEF StatusOf
  <2>15. H!Give
    BY <1>3, <2>1, <2>4, <2>13, <2>14 DEF H!Give, f
  <2> QED
    BY <2>12, <2>15
<1> QED
  BY <1>2, <1>3

\* Serving closes sockets of this worker only, or none.
LEMMA WorkerServeHands ==
    ASSUME IndInv, OwnInv, NEW w \in Workers, WorkerServe(w)
    PROVE  OwnInv' /\ \E C \in SUBSET Fds : H!Close(C)
<1> USE DEF queueVars, schedVars, ghostVars
<1> DEFINE new == IF wfd[w] = NoFd THEN {} ELSE {wfd[w]}
<1>1. /\ wfd' = [wfd EXCEPT ![w] = NoFd] /\ wpc' = [wpc EXCEPT ![w] = "poll"]
      /\ fresh' = fresh /\ sq' = sq
  BY DEF WorkerServe
<1>2. HeldBy(w) = proxies[w] \cup new /\ NoFd \notin HeldBy(w)
  BY NoFdAssumption DEF HeldBy, IndInv, TypeOK
<1>3. HeldWhileServing'
  BY <1>1 DEF IndInv, TypeOK, OwnInv, HeldWhileServing
<1>4. PICK accepted \in BOOLEAN :
         LET kept == IF accepted THEN proxies[w] \cup new ELSE proxies[w]
             lost == IF accepted THEN {} ELSE new
         IN  IF dead[w]
             THEN /\ proxies' = [proxies EXCEPT ![w] = {}]
                  /\ closed' = closed \cup kept \cup lost
             ELSE /\ proxies' = [proxies EXCEPT ![w] = kept]
                  /\ closed' = closed \cup lost
  BY DEF WorkerServe
<1>5. new \cap proxies[w] = {}
  BY DEF OwnInv, OwnedOnce
<1> DEFINE C == IF dead[w] THEN HeldBy(w) ELSE IF accepted THEN {} ELSE new
<1>6. closed' = closed \cup C /\ C \subseteq HeldBy(w)
  BY <1>2, <1>4
<1>7. proxies' = [proxies EXCEPT ![w] = HeldBy(w) \ C]
  BY <1>2, <1>4, <1>5
<1> HIDE DEF new, C
<1>8. HeldBy(w)' = HeldBy(w) \ C
  BY <1>1, <1>2, <1>7 DEF IndInv, TypeOK, HeldBy
<1>9. \A v \in Workers \ {w} : HeldBy(v)' = HeldBy(v)
  BY <1>1, <1>7 DEF IndInv, TypeOK, HeldBy
<1>10. \A v \in Workers : wfd'[v] \notin proxies'[v]
  BY <1>1, <1>2, <1>7 DEF IndInv, TypeOK, OwnInv, OwnedOnce
<1>11. Releases(w, C)
  BY <1>1, <1>6, <1>8, <1>9 DEF Releases
<1> QED
  BY <1>3, <1>10, <1>11, ReleaseKeeps DEF OwnInv

\* The end of a sub-proxy closes its socket.
LEMMA WorkerProxyDoneHands ==
    ASSUME IndInv, OwnInv, NEW w \in Workers, NEW f \in Fds,
           WorkerProxyDone(w, f)
    PROVE  OwnInv' /\ \E C \in SUBSET Fds : H!Close(C)
<1> USE DEF queueVars, schedVars, ghostVars
<1>1. /\ f \in proxies[w] /\ proxies' = [proxies EXCEPT ![w] = @ \ {f}]
      /\ closed' = closed \cup {f}
      /\ UNCHANGED <<fresh, sq, wpc, wfd>>
  BY DEF WorkerProxyDone
<1>2. wfd[w] # f
  BY <1>1 DEF OwnInv, OwnedOnce
<1>3. Releases(w, {f})
  BY <1>1, <1>2 DEF Releases, HeldBy, IndInv, TypeOK
<1>4. \A v \in Workers : wfd'[v] \notin proxies'[v]
  BY <1>1 DEF IndInv, TypeOK, OwnInv, OwnedOnce
<1>5. HeldWhileServing'
  BY <1>1 DEF OwnInv, HeldWhileServing
<1>6. OwnedOnce' /\ H!Close({f})
  BY <1>3, <1>4, ReleaseKeeps DEF OwnInv
<1> QED
  BY <1>5, <1>6 DEF OwnInv

\* Joining the workers closes all that they held.
LEMMA JoinWaitHands ==
    ASSUME IndInv, OwnInv, JoinWait
    PROVE  OwnInv' /\ \E C \in SUBSET Fds : H!Close(C)
<1> USE DEF queueVars, schedVars, ghostVars
<1>1. /\ closed' = closed \cup UNION {proxies[w] : w \in Workers}
      /\ proxies' = [w \in Workers |-> {}]
      /\ UNCHANGED <<fresh, sq, wfd, wpc>>
      /\ \A w \in Workers : wpc[w] = "exited"
  BY DEF JoinWait
<1>2. \A w \in Workers : wfd[w] = NoFd
  BY <1>1 DEF OwnInv, HeldWhileServing
<1>3. \A w \in Workers : HeldBy(w) = proxies[w] /\ HeldBy(w)' = {}
  BY <1>1, <1>2, NoFdAssumption DEF HeldBy, IndInv, TypeOK
<1>4. closed' = closed \cup Held /\ Held' = {} /\ Queued' = Queued
  <2>1. Held' = UNION {HeldBy(v)' : v \in Workers}
    BY DEF Held
  <2> QED
    BY <1>1, <1>3, <2>1 DEF Held, Queued
<1>5. OwnedOnce'
  <2>1. \A w \in Workers : wfd'[w] \notin proxies'[w]
    BY <1>1
  <2>2. \A v, w \in Workers : v # w => HeldBy(v)' \cap HeldBy(w)' = {}
    BY <1>3
  <2>3. \A i, j \in 1 .. Len(sq') : sq'[i] = sq'[j] => i = j
    BY <1>1 DEF OwnInv, OwnedOnce
  <2>4. /\ Fds = fresh' \cup Queued' \cup Held' \cup closed'
        /\ fresh' \cap (Queued' \cup Held' \cup closed') = {}
        /\ Queued' \cap (Held' \cup closed') = {}
        /\ Held' \cap closed' = {}
    BY <1>1, <1>4 DEF OwnInv, OwnedOnce
  <2> QED
    BY <2>1, <2>2, <2>3, <2>4 DEF OwnedOnce
<1>6. HeldWhileServing'
  BY <1>1 DEF OwnInv, HeldWhileServing
<1>7. Held \in SUBSET Fds /\ \A f \in Held : StatusOf(f) = "served"
  BY DEF OwnInv, OwnedOnce, StatusOf
<1>8. \A f \in Fds : StatusOf(f)' = IF f \in Held THEN "closed" ELSE StatusOf(f)
  BY <1>1, <1>4 DEF OwnInv, OwnedOnce, StatusOf
<1>9. H!Close(Held)
  BY <1>1, <1>7, <1>8 DEF H!Close
<1> QED
  BY <1>5, <1>6, <1>7, <1>9 DEF OwnInv

\* Each step keeps one owner per socket and is a step of Handover or none.
LEMMA NextHands ==
    ASSUME IndInv, OwnInv, [Next]_vars
    PROVE  OwnInv' /\ [H!Next]_(H!vars)
<1> USE DEF queueVars, schedVars, workerVars, ghostVars
<1>1. ASSUME UNCHANGED <<fresh, sq, wfd, proxies, closed>>, HeldWhileServing'
      PROVE  OwnInv' /\ [H!Next]_(H!vars)
  BY <1>1, NothingMoves DEF OwnInv
<1>2. CASE UNCHANGED vars
  BY <1>1, <1>2 DEF vars, OwnInv, HeldWhileServing
<1>3. CASE \/ PushCollect \/ PushReturn \/ PushWrite \/ PushCheckFeedback
           \/ PushResetFeedback \/ JoinMark \/ Stop
  <2>1. UNCHANGED <<fresh, sq, wfd, wpc, proxies, closed>>
    BY <1>3 DEF PushCollect, PushReturn, PushWrite, PushCheckFeedback,
                PushResetFeedback, JoinMark, Stop
  <2> QED
    BY <1>1, <2>1 DEF OwnInv, HeldWhileServing
<1>4. ASSUME NEW w \in Workers,
             WorkerWake(w) \/ WorkerReadHint(w) \/ WorkerExit(w)
      PROVE  OwnInv' /\ [H!Next]_(H!vars)
  <2>1. UNCHANGED <<fresh, sq, wfd, proxies, closed>>
    BY <1>4 DEF WorkerWake, WorkerReadHint, WorkerExit
  <2>2. HeldWhileServing'
    BY <1>4 DEF WorkerWake, WorkerReadHint, WorkerExit, OwnInv,
                HeldWhileServing, IndInv, TypeOK
  <2> QED
    BY <1>1, <2>1, <2>2
<1>5. CASE JoinWait
  BY <1>5, JoinWaitHands DEF H!Next
<1>6. ASSUME NEW f \in Fds, PushEnqueue(f) PROVE OwnInv' /\ [H!Next]_(H!vars)
  BY <1>6, PushEnqueueHands DEF H!Next
<1>7. ASSUME NEW w \in Workers, WorkerPop(w)
      PROVE  OwnInv' /\ [H!Next]_(H!vars)
  BY <1>7, WorkerPopHands DEF H!Next
<1>8. ASSUME NEW w \in Workers, WorkerServe(w)
      PROVE  OwnInv' /\ [H!Next]_(H!vars)
  BY <1>8, WorkerServeHands DEF H!Next
<1>9. ASSUME NEW w \in Workers, NEW f \in Fds, WorkerProxyDone(w, f)
      PROVE  OwnInv' /\ [H!Next]_(H!vars)
  BY <1>9, WorkerProxyDoneHands DEF H!Next
<1> QED
  BY <1>2, <1>3, <1>4, <1>5, <1>6, <1>7, <1>8, <1>9
     DEF Next, SchedulerNext, WorkerNext

\* The initial states are initial states of the hand-over.
LEMMA InitHands == Init => OwnInv /\ H!Init
<1> SUFFICES ASSUME Init PROVE OwnInv /\ H!Init
  OBVIOUS
<1>1. Queued = {} /\ Held = {} /\ \A w \in Workers : HeldBy(w) = {}
  BY EmptySeq DEF Init, Queued, Held, HeldBy
<1>2. OwnInv
  BY <1>1, EmptySeq DEF Init, OwnInv, OwnedOnce, HeldWhileServing
<1>3. H!Init
  BY <1>1 DEF Init, H!Init, StatusOf
<1> QED
  BY <1>2, <1>3

\* No socket is lost or served twice, for any number of workers and sockets.
THEOREM OneOwner == Spec => []OwnedOnce
<1>1. OwnInv => OwnedOnce
  BY DEF OwnInv
<1> QED
  BY <1>1, InitHands, NextHands, IndInvHolds, PTL DEF Spec

\* The acceptor with its threads implements the sequential hand-over.
THEOREM ImplementsHandover == Spec => HandoverSpec
<1>1. HandoverSpec <=> H!Init /\ [][H!Next]_(H!vars)
  BY DEF HandoverSpec, H!Spec
<1> QED
  BY <1>1, InitHands, NextHands, IndInvHolds, PTL DEF Spec
=============================================================================
