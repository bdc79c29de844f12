------------------------------- MODULE AppFlow -------------------------------
(***************************************************************************)
(* AppHostCX (apphostcx.cpp) and its signatures (common/signature.hpp):    *)
(* what a context reads and writes is copied into a flow, which signatures *)
(* search.  In PRE mode a read is peeked first and limited to what was     *)
(* peeked; in POST and CONTINUOUS mode the read buffer is copied after the *)
(* read.  Written data are copied as far as they are not in the flow yet.  *)
(*                                                                         *)
(* A byte is its position in its direction, 1, 2, ...; one unit stands for *)
(* 1 KB.  A pattern of a signature is one byte of a side.  read() and      *)
(* write() hold the buffer's lock and are single steps; the proxy empties  *)
(* the read buffer after each read.                                        *)
(***************************************************************************)
EXTENDS Integers, SequencesExt

CONSTANTS
    BuffSize,       \* params_t::buffsize
    MaxDetect,      \* config::max_detect_bytes
    MinDetect,      \* config::min_detect_bytes
    MaxExchanges,   \* config::max_exchanges
    ContinuousLeft, \* config::continuous_data_left_default
    Signatures,     \* signatures: sequences of [side, byte]
    MaxBytes        \* bound: bytes of a direction

ASSUME BytesAssumption ==
    {BuffSize, MaxDetect, MinDetect, MaxExchanges, ContinuousLeft, MaxBytes} \subseteq Nat

ASSUME SignaturesAssumption ==
    \A s \in Signatures : s \in Seq([side : {"r", "w"}, byte : Nat])

\* A full read buffer ends peeking: the first read that is shorter than the
\* peek before it is the last one that is peeked.
ASSUME DetectFitsBuffer == MaxDetect <= BuffSize

VARIABLE app

Sides == {"r", "w"}
Modes == {"NONE", "PRE", "POST", "CONTINUOUS"}
AppEntry == [side : Sides, data : Seq(1..MaxBytes)]

MatchType == [hit : BOOLEAN, ret : Nat, at : Seq(Nat \X Sides)]

AppType == [
    mode : Modes, arrived : 0..MaxBytes,
    read : 0..MaxBytes,         \* meter_read_bytes
    cap : Nat,                  \* capacity of readbuf
    peekR : 0..MaxBytes,        \* peek_read_counter
    given : 0..MaxBytes,        \* bytes the proxy has put into writebuf
    written : 0..MaxBytes,      \* meter_write_bytes
    peekW : 0..MaxBytes,        \* peek_write_counter
    flow : Seq(AppEntry), popped : Nat, left : 0..ContinuousLeft,
    match : [Signatures -> MatchType],
    reports : [Signatures -> Nat],
    thrown : BOOLEAN]           \* view() was out of bounds

\* The user of the library chooses the mode of a new context; make_sig_states
\* gives it fresh match states.
AppInit ==
    \E m \in {"PRE", "POST"} :
        app = [mode |-> m, arrived |-> 0, read |-> 0, cap |-> BuffSize, peekR |-> 0,
               given |-> 0, written |-> 0, peekW |-> 0, flow |-> <<>>, popped |-> 0,
               left |-> 0,
               match |-> [s \in Signatures |-> [hit |-> FALSE, ret |-> 0, at |-> <<>>]],
               reports |-> [s \in Signatures |-> 0], thrown |-> FALSE]

Bytes(from, to) == [i \in 1..(to - from) |-> from + i]
WriteBuf(a) == a.given - a.written

-----------------------------------------------------------------------------
(* The flow.                                                               *)

\* Flow::append for a stream: data of the same side extend the last entry.
\* (Entries stay below max_flow_size.)
FlowAppend(a, side, data) ==
    IF a.flow # <<>> /\ Last(a.flow).side = side
    THEN [a EXCEPT !.flow[Len(a.flow)].data = @ \o data]
    ELSE [a EXCEPT !.flow = Append(@, [side |-> side, data |-> data])]

\* inside_detect_ranges
InsideDetectRanges(a) ==
    LET total == a.read + a.written
    IN  total <= MaxDetect /\ (Len(a.flow) < MaxExchanges \/ total <= MinDetect)

\* inside_detect_on_continue: leaving the ranges switches to continuous mode,
\* so that the answer is always yes.
InsideDetectOnContinue(a) ==
    IF InsideDetectRanges(a) \/ a.mode = "CONTINUOUS" THEN a
    ELSE [a EXCEPT !.mode = "CONTINUOUS", !.left = ContinuousLeft]

\* continuous_mode_keeper, for data of n bytes just appended.
ContinuousModeKeeper(a, n) ==
    LET p == IF Len(a.flow) > 4
             THEN [a EXCEPT !.flow = SubSeq(@, 3, Len(@)), !.popped = @ + 2]
             ELSE a
    IN  IF a.mode # "CONTINUOUS" THEN a
        ELSE IF n > a.left THEN [p EXCEPT !.left = 0, !.mode = "NONE"]
        ELSE [p EXCEPT !.left = @ - n]

-----------------------------------------------------------------------------
(* Signatures.                                                             *)

\* The loop of flowMatch::match.  ret counts the results so far; the search
\* goes on with the last entry it has examined, since that may have grown.
\* A match replaces the result of the entry that was examined last, or adds
\* one.  at[i] is the entry, counted from the beginning, where element i
\* was found.
MatchEntry(a, s, m, k) ==
    LET e == a.flow[k]
        el == s[Len(m.at) + 1]
        n == IF k = m.ret THEN m.ret ELSE m.ret + 1
    IN  IF Len(m.at) = Len(s) THEN m
        ELSE IF e.side = el.side /\ el.byte \in Range(e.data)
        THEN [m EXCEPT !.ret = n, !.at = Append(@, <<a.popped + k, el.side>>)]
        ELSE [m EXCEPT !.ret = n]

\* flowMatchState::update
MatchUpdate(a, s) ==
    LET first == IF a.match[s].ret = 0 THEN 1 ELSE a.match[s].ret
        n == IF first <= Len(a.flow) THEN Len(a.flow) + 1 - first ELSE 0
        after[i \in 0..n] ==
            IF i = 0 THEN a.match[s] ELSE MatchEntry(a, s, after[i - 1], first + i - 1)
    IN  after[n]

\* detect(): a signature that was hit is not searched for again.
Detect(a) ==
    LET open == {s \in Signatures : ~a.match[s].hit}
        new == [s \in Signatures |-> IF s \in open THEN MatchUpdate(a, s) ELSE a.match[s]]
        full == {s \in open : Len(new[s].at) = Len(s)}
    IN  [a EXCEPT !.match = [s \in Signatures |->
                                [new[s] EXCEPT !.hit = @ \/ s \in full]],
                  !.reports = [s \in Signatures |-> @[s] + (IF s \in full THEN 1 ELSE 0)]]

-----------------------------------------------------------------------------
(* Reading.                                                                *)

\* Mutant: one more read is peeked after the buffer was too small for a peek.
PreReadOnceMore(a) ==
    LET n == a.arrived - a.read
    IN  IF a.mode # "PRE" \/ a.read > MaxDetect \/ n = 0 THEN a
        ELSE Detect(FlowAppend([a EXCEPT !.peekR = @ + n], "r", Bytes(a.read, a.arrived)))

\* pre_read: bytes read but not peeked are salvaged from the read buffer, which
\* is empty, so that view() throws; then everything that has arrived is
\* peeked, in growing steps.
PreRead(a) ==
    LET n == a.arrived - a.read
    IN  IF a.mode # "PRE" THEN a
        ELSE IF InsideDetectRanges(a) /\ a.peekR < a.read THEN [a EXCEPT !.thrown = TRUE]
        ELSE IF a.read >= MaxDetect \/ n = 0 THEN a
        ELSE Detect(FlowAppend([a EXCEPT !.peekR = @ + n], "r", Bytes(a.read, a.arrived)))

\* post_read
PostRead(a, data) ==
    LET i == InsideDetectOnContinue(a)
    IN  IF a.mode \notin {"POST", "CONTINUOUS"} THEN a
        ELSE Detect(ContinuousModeKeeper(FlowAppend(i, "r", data), Len(data)))

\* grow_buffer, after a read of n bytes that filled the buffer and did not reach
\* the read limit, which ends read() before; its own limit is 1024 times the
\* initial size.
GrowReadBuf(a, n, limit) == IF n = a.cap /\ n # limit THEN [a EXCEPT !.cap = 2 * @] ELSE a

\* after_read, with the default process_in.
AfterRead(a, n) == PostRead([a EXCEPT !.read = @ + n], Bytes(a.read, a.read + n))

\* baseHostCX::read; finish() has emptied the read buffer.  The read takes no
\* more than was peeked, and than fits.
AppRead ==
    LET p == PreRead(app)
        n == IF p.arrived - p.read < p.cap THEN p.arrived - p.read ELSE p.cap
        limit == p.peekR - app.peekR
    IN  /\ app.arrived > app.read /\ ~app.thrown
        /\ app' = IF p.thrown THEN p ELSE AfterRead(GrowReadBuf(p, n, limit), n)

AppArrive(n) ==
    /\ app.arrived + n <= MaxBytes
    /\ app' = [app EXCEPT !.arrived = @ + n]

-----------------------------------------------------------------------------
(* Writing.                                                                *)

\* pre_write: the missing bytes are the last ones of the write buffer, unless
\* some were flushed before they were copied, when view() is out of bounds.
PreWrite(a) ==
    LET i == InsideDetectOnContinue(a)
        delta == (i.written + WriteBuf(i)) - i.peekW
    IN  IF a.mode \notin {"PRE", "CONTINUOUS"} THEN a
        ELSE IF delta <= 0 THEN Detect(i)
        ELSE IF delta > WriteBuf(i) THEN [i EXCEPT !.thrown = TRUE]
        ELSE Detect(ContinuousModeKeeper(
                        FlowAppend([i EXCEPT !.peekW = @ + delta], "w",
                                   Bytes(i.given - delta, i.given)), delta))

\* post_write, between the count of the written bytes and their flush: the
\* bytes just written are counted twice, and view() is out of bounds.  (Before
\* that, the size of the flow's last entry is read, of which there may be none.)
PostWrite(a, buffered) ==
    LET delta == (a.written + buffered) - a.peekW
    IN  IF a.mode # "POST" \/ ~InsideDetectRanges(a) THEN a
        ELSE IF delta \notin 1..buffered THEN [a EXCEPT !.thrown = TRUE]
        ELSE Detect(FlowAppend([a EXCEPT !.peekW = @ + delta], "w",
                               Bytes(a.given - delta, a.given)))

\* baseHostCX::write; the socket takes n bytes.  (With an empty write buffer
\* nothing happens.)
AppWrite(n) ==
    LET p == PreWrite(app)
    IN  /\ ~app.thrown /\ WriteBuf(app) > 0 /\ n \in 0..WriteBuf(app)
        /\ app' = IF p.thrown \/ n = 0 THEN p
                  ELSE PostWrite([p EXCEPT !.written = @ + n], WriteBuf(p))

\* The proxy moves bytes of the peer into the write buffer.
AppToWrite(n) ==
    /\ app.given + n <= MaxBytes
    /\ app' = [app EXCEPT !.given = @ + n]

AppNext ==
    \/ AppRead
    \/ \E n \in 1..MaxBytes : AppArrive(n) \/ AppToWrite(n)
    \/ \E n \in 0..MaxBytes : AppWrite(n)

AppSpec == AppInit /\ [][AppNext]_app

-----------------------------------------------------------------------------
(* Properties.                                                             *)

\* The context has its type.
AppTypeOK == app \in AppType

\* The bytes of a side that are in the flow f, and that they come one after the
\* other, each once.
Copied(f, side) ==
    {b \in 1..MaxBytes : \E k \in DOMAIN f : f[k].side = side /\ b \in Range(f[k].data)}

InOrder(f, side) ==
    \A k, l \in DOMAIN f : f[k].side = side /\ f[l].side = side =>
        \A i \in DOMAIN f[k].data, j \in DOMAIN f[l].data :
            k < l \/ (k = l /\ i < j) => f[k].data[i] < f[l].data[j]

\* While data are peeked, the flow holds what was received and what was given
\* to write, each byte once and in order, though reads are shorter than peeks
\* and writes are partial; nothing within max_detect_bytes is read unpeeked and
\* nothing written uncopied.
PeekedOnce(a) ==
    /\ Copied(a.flow, "r") = 1..a.peekR /\ InOrder(a.flow, "r")
    /\ Copied(a.flow, "w") = 1..a.peekW /\ a.written <= a.peekW
    /\ a.read <= a.peekR \/ a.read > MaxDetect

\* In POST mode the flow holds what was read, each byte once and in order, and
\* no written byte: post_write throws within the ranges, and does nothing outside.
ReadOnlyCopied(a) ==
    /\ Copied(a.flow, "r") = 1..a.read /\ InOrder(a.flow, "r")
    /\ Copied(a.flow, "w") = {}
    /\ a.written > 0 => a.thrown \/ ~InsideDetectRanges(a)

\* Written bytes are never copied twice or out of order in any mode, in
\* continuous mode none is written uncopied unless POST mode came before, and
\* view() is out of bounds only then: in a context that began in POST mode, for
\* bytes that were written and not copied.
InspectedOnce(a) ==
    /\ a.mode = "PRE" => PeekedOnce(a)
    /\ a.mode = "POST" => ReadOnlyCopied(a)
    /\ a.mode = "CONTINUOUS" => a.written <= a.peekW \/ a.peekW = 0
    /\ InOrder(a.flow, "w")
    /\ a.thrown => a.mode \in {"POST", "CONTINUOUS"} /\ a.peekW = 0 /\ a.written > 0

HitsInOrder(a, s) ==
    LET at == a.match[s].at
    IN  /\ a.reports[s] <= 1 /\ (a.reports[s] = 1) = a.match[s].hit
        /\ a.match[s].hit => Len(at) = Len(s)
        /\ \A i, j \in DOMAIN at : i < j => at[i][1] <= at[j][1]
        /\ \A i \in DOMAIN at : at[i][2] = s[i].side

\* The flow copies the traffic as its mode promises or fails to (InspectedOnce),
\* and a signature is reported once at most, and only after its elements were
\* found in entries of their sides in the order of the flow, also when the
\* oldest entries have been dropped.
InspectionFaithful == InspectedOnce(app) /\ \A s \in Signatures : HitsInOrder(app, s)

-----------------------------------------------------------------------------
(* The inductive invariant behind it.                                      *)

\* What is copied of the writes was given to write; reads below max_detect_bytes
\* take all that was peeked, since the buffer is large enough; in POST mode no
\* write is copied at all.
FlowSound(a) ==
    /\ InspectedOnce(a)
    /\ a.read <= a.arrived /\ a.written <= a.given /\ a.peekW <= a.given /\ a.cap >= BuffSize
    /\ \A b \in Copied(a.flow, "w") : b <= a.peekW
    /\ a.mode = "POST" => a.peekW = 0
    /\ a.mode = "PRE" => a.peekR <= a.arrived /\ (a.read < MaxDetect => a.peekR = a.read)

\* An element was found no later than in the entry that was examined last.
MatchSound(a, s) ==
    /\ HitsInOrder(a, s)
    /\ Len(a.match[s].at) <= Len(s)
    /\ \A i \in DOMAIN a.match[s].at : a.match[s].at[i][1] <= a.popped + a.match[s].ret

AppInv == app \in AppType /\ FlowSound(app) /\ \A s \in Signatures : MatchSound(app, s)
=============================================================================
