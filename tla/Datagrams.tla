------------------------------ MODULE Datagrams ------------------------------
(***************************************************************************)
(* The early datagrams of UDP sessions (threadedreceiver.cpp, udpcom.cpp). *)
(* The receiver thread reads datagrams from the bound socket into the      *)
(* record of their session in the static DatagramCom, makes a connected    *)
(* socket for a new session, and hints its key to the workers; one worker  *)
(* makes the context that reads the record first and the connected socket  *)
(* afterwards.  All workers look through the one in_virt_set for sessions  *)
(* with data.                                                              *)
(*                                                                         *)
(* Lock sections of DatagramCom::lock are single steps.  The hint queue is *)
(* the one of module FdQueue; here it is the multiset of hints not taken   *)
(* yet, as a sequence.                                                     *)
(***************************************************************************)
EXTENDS Integers, SequencesExt

CONSTANTS
    Sessions,       \* session keys
    UdpWorkers,     \* ThreadedReceiverProxy threads
    QueueSlots,     \* slots of Datagram::rx_queue; the code has 5
    MaxDatagrams    \* bound: datagrams a client sends in a session

ASSUME QueueSlotsAssumption == QueueSlots \in Nat \ {0}
ASSUME MaxDatagramsAssumption == MaxDatagrams \in Nat

NoWorker == "NoWorker"
Vacant == 0     \* a slot without data
Nothing == "nothing"
ASSUME NoWorkerAssumption == NoWorker \notin UdpWorkers
ASSUME NothingAssumption == Nothing \notin Sessions

VARIABLE dg

DgType == [
    entry : [Sessions -> {"none", "live", "orphan"}],  \* datagrams_received
    slots : [Sessions -> [1..QueueSlots -> 0..MaxDatagrams]],   \* rx_queue
    left : [Sessions -> Seq(1..MaxDatagrams)],  \* kernel queue of socket_left
    sent : [Sessions -> 0..MaxDatagrams],       \* datagrams the client sent
    got : [Sessions -> Seq(1..MaxDatagrams)],   \* what the record's context has read
    hints : Seq(Sessions),
    virt : SUBSET Sessions,                     \* in_virt_set
    taken : [UdpWorkers -> Sessions \cup {Nothing}],  \* key taken from the hints
    owner : [Sessions -> UdpWorkers \cup {NoWorker}],   \* who has the context
    copied : [UdpWorkers -> SUBSET Sessions],   \* run_poll's copy of in_virt_set
    handled : [UdpWorkers -> SUBSET Sessions],  \* handled, still to be erased
    failed : SUBSET Sessions,                   \* records whose hand-over failed
    erasing : [UdpWorkers -> SUBSET Sessions],  \* read; UDPCom::read has the set to erase from
    depleted : SUBSET Sessions,                 \* embryonics().pool_depleted of the context
    closing : SUBSET Sessions]                  \* shutdown() is half done

DgInit ==
    dg = [entry |-> [s \in Sessions |-> "none"],
          slots |-> [s \in Sessions |-> [i \in 1..QueueSlots |-> Vacant]],
          left |-> [s \in Sessions |-> <<>>], sent |-> [s \in Sessions |-> 0],
          got |-> [s \in Sessions |-> <<>>], hints |-> <<>>, virt |-> {},
          taken |-> [w \in UdpWorkers |-> Nothing],
          owner |-> [s \in Sessions |-> NoWorker],
          copied |-> [w \in UdpWorkers |-> {}], handled |-> [w \in UdpWorkers |-> {}],
          failed |-> {}, erasing |-> [w \in UdpWorkers |-> {}], depleted |-> {},
          closing |-> {}]

-----------------------------------------------------------------------------
(* The receiver.                                                           *)

Used(d, s) == {i \in 1..QueueSlots : d.slots[s][i] # Vacant}
FirstOf(I) == CHOOSE i \in I : \A j \in I : i <= j

\* Datagram::enqueue: the first empty slot, or the datagram is dropped.
Enqueue(d, s, x) ==
    LET free == 1..QueueSlots \ Used(d, s)
    IN  IF free = {} THEN d ELSE [d EXCEPT !.slots[s][FirstOf(free)] = x]

\* Mutant: a known session gets no hint although its context is gone.
HintOnceEver(d, s) == IF d.sent[s] > 1 THEN d ELSE [d EXCEPT !.hints = Append(@, s)]

\* hint_push_all for a new entry.
HintPushAll(d, s) == [d EXCEPT !.hints = Append(@, s)]

\* add_first_datagrams for the next datagram of session s.  Making the
\* connected socket may throw, and the read may fail: a new entry then stays,
\* without socket and hint.
AddFirstDatagrams(s) ==
    LET x == dg.sent[s] + 1
        e == Enqueue([dg EXCEPT !.sent[s] = x], s, x)
        in(d) == [d EXCEPT !.virt = @ \cup {s}]
    IN  IF dg.entry[s] # "none" THEN dg' = in(e)
        ELSE dg' \in {in(HintPushAll([e EXCEPT !.entry[s] = "live", !.got[s] = <<>>], s)),
                      [e EXCEPT !.entry[s] = "orphan"],
                      [dg EXCEPT !.entry[s] = "orphan"]}

\* process_anc_data: the kernel gave the original addresses, or did not.
ProcessAncData == BOOLEAN

\* on_left_new_raw, one turn of its loop: a datagram without addresses is read
\* and dropped.
OnLeftNewRaw(s) ==
    /\ dg.sent[s] < MaxDatagrams
    /\ \E creds \in ProcessAncData :
          IF creds THEN AddFirstDatagrams(s) ELSE dg' = [dg EXCEPT !.sent[s] = @ + 1]

\* A datagram for the connected socket of a session.
ClientSends(s) ==
    /\ dg.entry[s] = "live" /\ dg.sent[s] < MaxDatagrams
    /\ dg' = [dg EXCEPT !.sent[s] = @ + 1, !.left[s] = Append(@, dg.sent[s] + 1)]

-----------------------------------------------------------------------------
(* The workers.                                                            *)

\* read_from_pool: one datagram, of the record if it holds any, else of the
\* connected socket.  in_virt_set keeps the session if more are left, else
\* loses it.
ReadFromPool(d, s) ==
    IF Used(d, s) # {}
    THEN LET i == FirstOf(Used(d, s))
         IN  [d EXCEPT !.slots[s][i] = Vacant, !.got[s] = Append(@, d.slots[s][i]),
                       !.virt = IF Used(d, s) = {i} THEN @ \ {s} ELSE @ \cup {s}]
    ELSE IF d.left[s] # <<>>
    THEN [d EXCEPT !.left[s] = Tail(@), !.got[s] = Append(@, Head(d.left[s]))]
    ELSE d

\* The contexts of the sessions R read once each; every one has a record and a
\* socket of its own, so the order they are visited in does not matter.
ReadEach(d, R) ==
    [d EXCEPT !.slots = [r \in Sessions |-> IF r \in R THEN ReadFromPool(d, r).slots[r] ELSE @[r]],
              !.left = [r \in Sessions |-> IF r \in R THEN ReadFromPool(d, r).left[r] ELSE @[r]],
              !.got = [r \in Sessions |-> IF r \in R THEN ReadFromPool(d, r).got[r] ELSE @[r]],
              !.virt = {r \in Sessions : r \in IF r \in R THEN ReadFromPool(d, r).virt ELSE @}]

\* UDPCom::read of the sessions R has come back from read_from_pool: until the
\* pool was once found empty, it looks into the record again.
PoolChecked(d, w, R) ==
    [d EXCEPT !.erasing[w] = {s \in R \ d.depleted : Used(d, s) = {}}]

\* The rest of UDPCom::read: an empty record is taken from in_virt_set, without
\* the lock it was looked at under, unless the connected socket has an event.
PoolErase(w, s) ==
    /\ s \in dg.erasing[w]
    /\ \E event \in BOOLEAN :
          dg' = [dg EXCEPT !.erasing[w] = @ \ {s},
                           !.virt = IF event THEN @ ELSE @ \ {s},
                           !.depleted = IF event THEN @ ELSE @ \cup {s}]

\* FdQueue::pop in handle_sockets_once.
PopForWorker(w) ==
    /\ dg.hints # <<>> /\ dg.taken[w] = Nothing /\ dg.erasing[w] = {}
    /\ dg.copied[w] = {} /\ dg.handled[w] = {}
    /\ dg' = [dg EXCEPT !.hints = Tail(@), !.taken[w] = Head(dg.hints)]

\* Outcomes of the locked part of handle_sockets_once, and of on_left_new: the
\* record gets its context, or there is none for it: new_cx throws, its Com is
\* no UDPCom, or there is no target to redirect to.  The record then stays in
\* datagrams_received, and its hint is used up.
HandOver(d, w, s) ==
    IF d.entry[s] = "none" THEN {d}
    ELSE {[d EXCEPT !.owner[s] = w, !.depleted = @ \ {s}, !.failed = @ \ {s}],
          [d EXCEPT !.failed = @ \cup {s}]}

\* The worker takes the session whose key it popped.  In every case
\* MasterProxy::handle_sockets_once visits every sub-proxy of the worker then,
\* a new one included, and each reads once.
NewSession(w) ==
    /\ dg.taken[w] # Nothing /\ dg.erasing[w] = {}
    /\ \E n \in HandOver([dg EXCEPT !.taken[w] = Nothing], w, dg.taken[w]) :
          LET mine == {r \in Sessions : n.owner[r] = w /\ n.entry[r] # "none"}
          IN  dg' = PoolChecked(ReadEach(n, mine), w, mine)

\* run_poll: the worker copies in_virt_set.
VirtCopy(w) ==
    /\ dg.virt # {} /\ dg.copied[w] = {} /\ dg.handled[w] = {} /\ dg.taken[w] = Nothing
    /\ dg.erasing[w] = {}
    /\ dg' = [dg EXCEPT !.copied[w] = dg.virt]

\* run_poll_socket for a virtual socket: the worker that has its handler makes
\* a pass over it, any other one takes it for an orphan.
VirtHandle(w, s) ==
    /\ s \in dg.copied[w] /\ dg.erasing[w] = {}
    /\ LET d == [dg EXCEPT !.copied[w] = @ \ {s}, !.handled[w] = @ \cup {s}]
       IN  dg' = IF dg.owner[s] = w /\ dg.entry[s] # "none"
                 THEN PoolChecked(ReadFromPool(d, s), w, {s}) ELSE d

\* run_poll_socket erases the socket it handled from the set.
VirtErase(w, s) ==
    /\ s \in dg.handled[w] /\ dg.erasing[w] = {}
    /\ dg' = [dg EXCEPT !.handled[w] = @ \ {s}, !.virt = @ \ {s}]

\* An event on the connected socket, which is monitored by its worker.
LeftEvent(s) ==
    /\ dg.left[s] # <<>> /\ dg.entry[s] = "live"
    /\ \E w \in UdpWorkers :
          /\ dg.owner[s] = w /\ dg.erasing[w] = {}
          /\ dg' = PoolChecked(ReadFromPool(dg, s), w, {s})

RemoveEntry(d, s) ==
    [d EXCEPT !.entry[s] = "none", !.slots[s] = [i \in 1..QueueSlots |-> Vacant],
              !.left[s] = <<>>, !.virt = @ \ {s}, !.failed = @ \ {s}]

\* UDPCom::shutdown of a virtual socket: the record goes, and the connected
\* socket is closed.
CloseSession(s) ==
    /\ dg.owner[s] # NoWorker /\ s \notin dg.closing
    /\ \A w \in UdpWorkers : s \notin dg.erasing[w]
    /\ dg' = [RemoveEntry(dg, s) EXCEPT !.owner[s] = NoWorker, !.closing = @ \cup {s}]

\* Its second half, for embryonics().id, which is the same key: a record the
\* receiver has made meanwhile goes too.
CloseEmbryonic(s) ==
    /\ s \in dg.closing
    /\ dg' = [RemoveEntry(dg, s) EXCEPT !.closing = @ \ {s}]

DgWorker(w) ==
    \/ PopForWorker(w) \/ NewSession(w) \/ VirtCopy(w)
    \/ \E s \in Sessions : VirtHandle(w, s) \/ VirtErase(w, s) \/ PoolErase(w, s)

DgNext ==
    \/ \E s \in Sessions : OnLeftNewRaw(s) \/ ClientSends(s) \/ LeftEvent(s)
                           \/ CloseSession(s) \/ CloseEmbryonic(s)
    \/ \E w \in UdpWorkers : DgWorker(w)

\* Workers poll for ever; closing runs to its end; clients owe nothing.
DgFairness ==
    /\ \A w \in UdpWorkers :
          /\ WF_dg(PopForWorker(w)) /\ WF_dg(NewSession(w)) /\ WF_dg(VirtCopy(w))
          /\ \A s \in Sessions : /\ WF_dg(VirtHandle(w, s)) /\ WF_dg(VirtErase(w, s))
                                 /\ WF_dg(PoolErase(w, s))
    /\ \A s \in Sessions : WF_dg(LeftEvent(s)) /\ WF_dg(CloseEmbryonic(s))

DgSpec == DgInit /\ [][DgNext]_dg /\ DgFairness

-----------------------------------------------------------------------------
(* Properties.                                                             *)

\* The records have their types.
DgTypeOK == dg \in DgType

\* A session with a record and no context is on its way to a worker: its hint
\* is queued or was just taken, or a worker has tried and had no context for it,
\* whatever closings and late datagrams come in between.  (Nothing tries again
\* for a record whose hand-over failed, and a record whose connected socket could
\* not be made gets no hint.)
NoSessionLost ==
    \A s \in Sessions : dg.entry[s] = "live" /\ dg.owner[s] = NoWorker =>
        s \in Range(dg.hints) \cup dg.failed \/ \E w \in UdpWorkers : dg.taken[w] = s

\* A session with a record gets a context that reads a datagram of it, unless
\* the worker that tries has no context for it or it is closed first.
SessionServed ==
    \A s \in Sessions :
        (dg.entry[s] = "live")
            ~> (dg.got[s] # <<>> \/ dg.entry[s] = "none" \/ s \in dg.failed)
=============================================================================
