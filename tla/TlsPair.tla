------------------------------- MODULE TlsPair -------------------------------
(***************************************************************************)
(* The two SSLComs of one proxied TLS session (sslcom.tpp, sslmitmcom.tpp): *)
(* "L" accepts the client, "R" connects to the server.  R peeks at the     *)
(* client's hello in L's socket, decides between inspection and bypass,    *)
(* shakes hands with the server, and only then is L let go to shake hands  *)
(* with the client.  The two sides change each other's poll interest, SSL  *)
(* object and waiting flags.                                               *)
(*                                                                         *)
(* The whole session is one record, so that the functions of the code,     *)
(* which call each other, compose as operators from a session to the set   *)
(* of sessions it may become.  The worker waits in the poller and then     *)
(* runs, for every socket that was reported, a whole pass of               *)
(* handle_sockets_once: both reads, then both writes.  Nothing else wakes  *)
(* a session for certain.                                                  *)
(***************************************************************************)
EXTENDS Integers

VARIABLE tls

Sides == {"L", "R"}
Other(s) == IF s = "L" THEN "R" ELSE "L"

\* What the client's first bytes are: nothing yet, less than 34 bytes, a hello
\* cut by a segment boundary, a whole hello, one whose SNI is in
\* sni_filter_to_bypass, or no TLS at all.
Hellos == {"none", "short", "partial", "tls", "filtered", "plain"}

SessionType == [
    slow : BOOLEAN,                         \* its rescan counters are exceeded
    phase : {"new", "on", "over"},          \* not connected, running, closed
    verdict : BOOLEAN,                      \* the status callback is installed
    hello : Hellos,
    taken : BOOLEAN,                        \* the hello was read, not only peeked
    msg : [Sides -> {"none", "flight", "data", "eof"}], \* unread after the hello
    sends : [Sides -> 0..1],                \* data the ends may still send
    tcpUp : BOOLEAN,                        \* R's connect() completed
    sentHello : BOOLEAN,                    \* R's own hello went to the server
    ssl : [Sides -> {"null", "busy", "done", "failed"}],
    waiting : [Sides -> BOOLEAN],           \* sslcom_waiting
    bypass : BOOLEAN,                       \* opt.bypass, set on both sides at once
    rcvd : BOOLEAN,                         \* R's sslcom_peer_hello_received
    certOk : BOOLEAN,                       \* R's sslcom_status
    tested : BOOLEAN,                       \* R's verdict is not VRF_NOTTESTED
    paused : [Sides -> SUBSET {"read", "write"}],   \* waiting_for_peercom flags
    neck : [Sides -> BOOLEAN],              \* write bottleneck of the side
    mon : [Sides -> SUBSET {"in", "out"}],  \* epoll interest
    resc : [Sides -> SUBSET {"in", "out"}], \* rescan sets of the poller
    enf : [Sides -> BOOLEAN],               \* enforced: reported by the next wait()
    ins : SUBSET Sides,                     \* in_set and out_set of the last wait(),
    outs : SUBSET Sides,                    \*   still to be handled
    forced : [Sides -> BOOLEAN],            \* forced_read
    held : [Sides -> BOOLEAN],              \* decrypted bytes left in OpenSSL
    late : [Sides -> BOOLEAN],              \* history: held, and the forced read deferred
    out : [Sides -> BOOLEAN]]               \* bytes waiting to be written

Both(x) == [s \in Sides |-> x]

TlsInit ==
    \E slow \in BOOLEAN :
    tls = [slow |-> slow, phase |-> "new", verdict |-> TRUE, hello |-> "none",
           taken |-> FALSE, msg |-> Both("none"), sends |-> Both(1), tcpUp |-> FALSE,
           sentHello |-> FALSE, ssl |-> Both("null"), waiting |-> Both(TRUE),
           bypass |-> FALSE, rcvd |-> FALSE, certOk |-> FALSE, tested |-> FALSE,
           paused |-> [s \in Sides |-> IF s = "L" THEN {"read", "write"} ELSE {}],
           neck |-> Both(FALSE), mon |-> Both({}), resc |-> Both({}), enf |-> Both(FALSE),
           ins |-> {}, outs |-> {}, forced |-> Both(FALSE), held |-> Both(FALSE),
           late |-> Both(FALSE), out |-> Both(FALSE)]

-----------------------------------------------------------------------------
(* Poll interest: baseCom's monitor wrappers over epoll.                   *)

\* set_monitor: epoll_ctl(ADD) leaves a monitored socket as it is.
SetMonitor(t, s) == IF t.mon[s] = {} THEN [t EXCEPT !.mon[s] = {"in"}] ELSE t

\* set_write_monitor, set_write_monitor_only: epoll_ctl(MOD).
SetInterest(t, s, m) == [t EXCEPT !.mon[s] = m]

\* unset_monitor, also cancelling rescans.
UnsetMonitor(t, s) == [t EXCEPT !.mon[s] = {}, !.resc[s] = {}]

RescanRead(t, s) == [t EXCEPT !.mon[s] = {}, !.resc[s] = @ \cup {"in"}]
RescanWrite(t, s) == [t EXCEPT !.mon[s] = {}, !.resc[s] = @ \cup {"out"}]

\* An error of one side shuts both down: their sockets leave the poller, and
\* what they still had to read or write is dropped.
Ended(t) ==
    [t EXCEPT !.phase = "over", !.msg = Both("none"), !.mon = Both({}), !.resc = Both({}),
              !.enf = Both(FALSE), !.ins = {}, !.outs = {}, !.forced = Both(FALSE),
              !.held = Both(FALSE), !.late = Both(FALSE), !.out = Both(FALSE), !.neck = Both(FALSE)]

\* After SSL_ERROR_WANT_READ and WANT_WRITE: wait for the event, or rescan
\* once there were more than rescan_threshold of them.  Passes after hints
\* add to the counters in any state of a session, so instead of counting, a
\* slow session is one where they may be exceeded at any time, and where a
\* read or write timeout may expire.
Slowed(t, fast, slow) == IF t.slow THEN {fast, slow} ELSE {fast}
Timeout(t) == IF t.slow THEN {Ended(t)} ELSE {}
WantRead(t, s) == Slowed(t, SetMonitor(t, s), RescanRead(t, s))
WantWrite(t, s, m) == Slowed(t, SetInterest(t, s, m), RescanWrite(t, s))

-----------------------------------------------------------------------------
(* The client's hello.                                                     *)

\* bypass_me_and_peer: verify_reset(VRF_OK) on both sides.
BypassBoth(t) == [t EXCEPT !.bypass = TRUE, !.tested = TRUE]

\* The extensions: a hello cut within them is malformed, one cut before them
\* passes, without its SNI.
ParseHelloExtensions(h) == IF h = "partial" THEN {0, 1} ELSE {1}

\* parse_peer_hello: 1 is a hello, 0 none, -1 too short.  A hello cut in its
\* ciphers is malformed, and one cut before the session id is too short.
ParsePeerHello(h) ==
    CASE h = "short" -> {-1}
      [] h = "partial" -> {-1, 0} \cup ParseHelloExtensions(h)
      [] h = "plain" -> {0}
      [] OTHER -> ParseHelloExtensions(h)

\* waiting_peer_hello of R: a peek into L's socket.
WaitingPeerHello(t) ==
    IF t.rcvd THEN {t}
    ELSE IF t.hello = "none" \/ t.taken
    THEN IF t.msg["L"] = "eof" THEN {t, Ended(t)} ELSE {t}
    ELSE UNION {
        CASE p = 1 -> {SetMonitor([t EXCEPT !.rcvd = TRUE], "R")}
          [] p = 0 -> {BypassBoth(t)}
          [] OTHER -> IF t.hello = "short" THEN {RescanRead(t, "L"), Ended(t)} ELSE {t}
        : p \in ParsePeerHello(t.hello)}

\* handshake_peer_client's loop over sni_filter_to_bypass; the name is known
\* when the whole hello was there.
SniFilter(t) == t.rcvd /\ t.hello = "filtered"

-----------------------------------------------------------------------------
(* The handshakes.                                                         *)

\* upgrade_client_socket once the hello is there: init_client and the first
\* SSL_connect, which sends our hello when the server is connected.  L's read
\* events are switched off meanwhile.
UpgradeClient(t) ==
    LET n == [t EXCEPT !.ssl["R"] = "busy", !.waiting["R"] = TRUE]
    IN  IF t.tcpUp THEN UnsetMonitor([n EXCEPT !.sentHello = TRUE], "L")
        ELSE UnsetMonitor(SetInterest(n, "R", {"out"}), "L")

\* upgrade_client_socket.
UpgradeClientSocket(t) ==
    {IF u.rcvd /\ ~u.bypass /\ u.phase = "on" THEN UpgradeClient(u) ELSE u
        : u \in WaitingPeerHello(t)}

\* Mutant: the client side is upgraded before the hello is looked at.
HandshakePeerClientBlind(t) ==
    {IF t.rcvd THEN t ELSE u : u \in UNION {WaitingPeerHello(v) : v \in {UpgradeClient(t)}}}

\* handshake_peer_client: false (a hello still missing, or a bypass) is told
\* from true by what it left in the session.
HandshakePeerClient(t) ==
    {IF SniFilter(u) THEN BypassBoth(u) ELSE u
        : u \in IF t.rcvd THEN {t} ELSE UpgradeClientSocket(t)}

\* upgrade_server_socket: init_server, once.
UpgradeServer(t) == [t EXCEPT !.ssl["L"] = IF @ = "null" THEN "busy" ELSE @]

\* check_cert of a client: com_status turns good, unless the server showed no
\* certificate, and L's server object is made, unless spoofing failed.
CheckCert(t) ==
    LET v == [t EXCEPT !.tested = @ \/ t.verdict]
        ok == [v EXCEPT !.certOk = TRUE]
    IN  {v, ok, IF t.waiting["L"] THEN UpgradeServer(ok) ELSE ok}

\* handshake_client and the rest of handshake(): SSL_connect's outcomes.
\* Success is returned as AGAIN too, so the caller does not go on.
HandshakeClient(t) ==
    CASE t.ssl["R"] = "failed" -> {Ended(t)}
      [] ~t.tcpUp -> WantWrite(t, "R", {"out"})
      [] t.msg["R"] = "flight" ->
             {[u EXCEPT !.waiting["R"] = FALSE]
                : u \in CheckCert([t EXCEPT !.msg["R"] = "none", !.ssl["R"] = "done"])}
             \cup {[t EXCEPT !.msg["R"] = "none", !.ssl["R"] = "failed"], Ended(t)}
      [] t.msg["R"] = "eof" -> {Ended(t)}
      [] OTHER -> WantRead([t EXCEPT !.sentHello = TRUE], "R")

\* Whole or not, the hello is consumed by SSL_accept only when it is whole.
HandshakeServer(t) ==
    LET u == UpgradeServer(t)
    IN  CASE ~t.taken /\ t.hello \in {"tls", "filtered"} ->
                 WantRead([u EXCEPT !.taken = TRUE], "L")
          [] ~t.taken /\ t.hello = "plain" -> {Ended(t)}
          [] t.taken /\ t.msg["L"] = "flight" ->
                 {[u EXCEPT !.msg["L"] = "none", !.ssl["L"] = "done", !.waiting["L"] = FALSE]}
          [] t.msg["L"] = "eof" -> {Ended(t)}
          [] OTHER -> WantRead(u, "L")

\* handshake().
Handshake(t, s) ==
    IF s = "L" THEN HandshakeServer(t)
    ELSE UNION {
        CASE u.phase = "over" -> {u}
          [] ~u.rcvd \/ u.bypass -> {RescanRead(UnsetMonitor(u, "R"), "R")}
          [] OTHER -> HandshakeClient(u)
        : u \in HandshakePeerClient(t)}

-----------------------------------------------------------------------------
(* Reading and writing.                                                    *)

\* on_left_bytes and on_right_bytes: to_write of the other side.
PassOn(t, s) == [t EXCEPT !.out[Other(s)] = TRUE, !.mon[Other(s)] = {"in", "out"}]

\* L4Proto::read in bypass: the hello and what follows goes through as it is.
RawRead(t, s) ==
    IF s = "L" /\ ~t.taken /\ t.hello # "none"
    THEN {PassOn([t EXCEPT !.taken = TRUE], s)}
    ELSE CASE t.msg[s] = "eof" -> {Ended(t)}
           [] t.msg[s] = "none" -> {t}
           [] OTHER -> {PassOn([t EXCEPT !.msg[s] = "none"], s)}

\* Mutant: a full buffer ends the read without forcing another one.
SslReadUnforced(t, s) ==
    CASE t.held[s] -> {PassOn([t EXCEPT !.held[s] = FALSE], s)}
      [] t.msg[s] = "data" -> {PassOn([t EXCEPT !.msg[s] = "none", !.held[s] = TRUE], s)}
      [] t.msg[s] = "eof" -> {Ended(t)}
      [] OTHER -> WantRead(t, s)

\* The loop of read() over SSL_read.  When the buffer is full the rest stays
\* in OpenSSL, where the poller does not see it, and another read is forced.
\* A read that waits for longer than SSLCOM_READ_TIMEOUT ends the session.
\* Renegotiations, where a read waits for writing and a write for reading, are
\* left out.
SslRead(t, s) ==
    CASE t.held[s] -> {PassOn([t EXCEPT !.held[s] = FALSE, !.late[s] = FALSE], s)}
      [] t.msg[s] = "data" ->
             {PassOn([t EXCEPT !.msg[s] = "none"], s),
              PassOn([t EXCEPT !.msg[s] = "none", !.held[s] = TRUE,
                               !.forced[s] = TRUE, !.enf[s] = TRUE], s)}
             \cup Timeout(t)
      [] t.msg[s] = "eof" -> {Ended(t)}
      [] OTHER -> WantRead(t, s) \cup Timeout(t)

\* baseSSLCom::read.
SslComRead(t, s) ==
    IF t.bypass THEN RawRead(t, s)
    ELSE IF t.waiting[s]
    THEN UNION {IF u.bypass /\ u.phase = "on" THEN RawRead(u, s) ELSE {u} : u \in Handshake(t, s)}
    ELSE SslRead(t, s)

\* baseHostCX::write after the Com took all, a part, or nothing of its bytes.
\* Its rescan_out_flag_ is set by the writes that start a bottleneck and cleared
\* by the one that ends it.
TookAll(t, s) ==
    LET u == [t EXCEPT !.out[s] = FALSE]
    IN  IF t.neck[s] THEN SetInterest(u, s, {"in"}) ELSE u
TookSome(t, s) == SetInterest(t, s, {"in", "out"})
TookNone(t, s) == IF t.phase = "on" /\ t.out[s] THEN RescanWrite(t, s) ELSE t

\* L4Proto::write: a server that is not connected yet takes nothing.
RawWrite(t, s) ==
    IF ~t.out[s] \/ (s = "R" /\ ~t.tcpUp) THEN {TookNone(t, s)}
    ELSE {TookAll(t, s), TookSome(t, s), TookNone(t, s)}

\* SSL_write: of at most 20480 bytes; after WANT_WRITE it is tried again, until
\* SSLCOM_WRITE_TIMEOUT, and rescan_write overrides the interest it has set.
SslWrite(t, s) == {TookAll(t, s), TookSome(t, s), TookNone(t, s)} \cup Timeout(t)

\* baseSSLCom::write.
SslComWrite(t, s) ==
    IF t.bypass THEN RawWrite(t, s)
    ELSE IF t.waiting[s]
    THEN UNION {IF u.bypass /\ u.phase = "on" THEN RawWrite(u, s) ELSE {TookNone(u, s)}
                   : u \in Handshake(t, s)}
    ELSE IF t.out[s] THEN SslWrite(t, s) ELSE {t}

\* Mutant: com_status does not ask for the verdict on the certificate.
ComStatusAny(t) == t.bypass \/ t.rcvd

\* com_status of R.  Its TCP part holds from the start: is_connected finds the
\* socket in the write set, where in_write_set finds every socket.
ComStatus(t) == t.bypass \/ (t.certOk /\ t.tested)

-----------------------------------------------------------------------------
(* A pass over the session.                                                *)

On == tls.phase = "on"
Readable(t, s) == t.msg[s] # "none" \/ (s = "L" /\ t.hello # "none" /\ ~t.taken)

InEvent(t, s) == "in" \in t.mon[s] /\ Readable(t, s)
OutEvent(t, s) == "out" \in t.mon[s] /\ (s = "R" => t.tcpUp)

\* process_epoll_events, which takes a writable socket back to reading only, and
\* enforced_to_inset.
EpollEvents(t) ==
    LET outs == {s \in Sides : OutEvent(t, s) /\ ~InEvent(t, s)}
    IN  [t EXCEPT !.ins = {s \in Sides : InEvent(t, s) \/ t.enf[s]}, !.outs = outs,
                  !.enf = Both(FALSE),
                  !.mon = [s \in Sides |-> IF s \in outs THEN {"in"} ELSE t.mon[s]]]

\* com_status of the peer of s.  L's is good in a bypass only: its
\* sslcom_status is set by check_cert, which a server never runs.
PeerReady(t, s) == IF s = "L" THEN ComStatus(t) ELSE t.bypass

\* read_waiting_for_peercom and write_waiting_for_peercom: a side goes on when
\* its peer is ready; else the peer is watched, or rescanned after
\* com_not_ready_slowdown checks.
PeercomCheck(t, s, op) ==
    IF op \notin t.paused[s] THEN {t}
    ELSE IF PeerReady(t, s) THEN {[t EXCEPT !.paused[s] = @ \ {op}]}
    ELSE IF op = "read" THEN WantRead(t, Other(s))
    ELSE WantWrite(t, Other(s), {"in", "out"})

MayGo(t, s, op) == t.phase = "on" /\ op \notin t.paused[s]

\* baseHostCX::read: deferred while the peer's write buffer is over write_full.
Deferred(t, s) ==
    IF t.out[Other(s)] THEN {RescanRead([t EXCEPT !.late[s] = t.held[s]], s)} ELSE {}

\* handle_cx_read_once: no read while the other side is a bottleneck.  A forced
\* read is spent even if baseHostCX::read then defers it.
ReadOnce(t, s) ==
    UNION {IF MayGo(u, s, "read") /\ ~u.neck[Other(s)] /\ (s \in u.ins \/ u.forced[s])
           THEN LET v == [u EXCEPT !.forced[s] = FALSE]
                IN  Deferred(v, s) \cup SslComRead(v, s)
           ELSE {u}
        : u \in PeercomCheck(t, s, "read")}

\* The write of s left bytes over: the other side is taken out of the poller and
\* not read from; or it left none, and a bottleneck is over.
Bottleneck(t, s) ==
    LET u == UnsetMonitor(SetInterest(t, s, {"in", "out"}), Other(s))
    IN  [u EXCEPT !.neck[s] = TRUE, !.paused[s] = {}, !.paused[Other(s)] = @ \cup {"read"}]
BottleneckOver(t, s) ==
    [t EXCEPT !.neck[s] = FALSE, !.mon[Other(s)] = {"in"}, !.paused[Other(s)] = @ \ {"read"}]

\* The end of handle_cx_write_once, for a side that had bytes to write.
AfterWrite(t, s) ==
    CASE t.phase = "on" /\ t.out[s] -> Bottleneck(t, s)
      [] t.phase = "on" /\ ~t.out[s] /\ t.neck[s] -> BottleneckOver(t, s)
      [] OTHER -> t

\* Mutant: a side is only asked to write when it has something to write.
WriteOnceIfAny(t, s) ==
    UNION {IF MayGo(u, s, "write") /\ u.out[s]
           THEN {AfterWrite(w, s) : w \in SslComWrite(u, s)} ELSE {u}
        : u \in PeercomCheck(t, s, "write")}

\* handle_cx_write_once: in_writeset is always true.
WriteOnce(t, s) ==
    UNION {IF MayGo(u, s, "write")
           THEN {IF u.out[s] THEN AfterWrite(w, s) ELSE w : w \in SslComWrite(u, s)}
           ELSE {u}
        : u \in PeercomCheck(t, s, "write")}

\* handle_sockets_once: reads left and right, then writes left and right.
PassOutcomes(t) ==
    LET r1 == ReadOnce(t, "L")
        r2 == UNION {ReadOnce(u, "R") : u \in r1}
        w1 == UNION {WriteOnce(u, "L") : u \in r2}
    IN  UNION {WriteOnce(u, "R") : u \in w1}

\* run_poll: the sets are handled, or epoll::wait fills them anew.
Reported(t) == IF t.ins \cup t.outs = {} THEN EpollEvents(t) ELSE t

\* run_poll_socket: in_set comes first; the socket is erased from its set.
Handled(t, s) ==
    IF s \in t.ins THEN [t EXCEPT !.ins = @ \ {s}] ELSE [t EXCEPT !.outs = @ \ {s}]

TlsPass ==
    \E t \in {Reported(tls)} :
        /\ On /\ t.ins \cup t.outs # {}
        /\ \E u \in PassOutcomes(t), s \in IF t.ins # {} THEN t.ins ELSE t.outs :
              tls' = Handled(u, s)

\* A pass over all sub-proxies, after a hint about another connection.
TlsHintPass == On /\ tls' \in PassOutcomes(tls)

-----------------------------------------------------------------------------
(* Steps.                                                                  *)

\* connect() of R, then ladd and radd of both sides.
TlsConnect ==
    /\ tls.phase = "new"
    /\ \E v \in BOOLEAN, u \in UpgradeClientSocket([tls EXCEPT !.phase = "on"]) :
          tls' = [SetMonitor(SetMonitor(u, "L"), "R") EXCEPT !.verdict = v]

\* The client's first bytes arrive, at once or in pieces.  A hello that was
\* parsed in part is not parsed again, so the name in the rest is not seen.
ClientHello ==
    /\ tls.phase # "over" /\ ~tls.taken /\ tls.msg["L"] = "none"
    /\ \E h \in CASE tls.hello = "none" -> Hellos \ {"none"}
                  [] tls.hello \in {"short", "partial"} -> {"partial", "tls", "filtered"}
                  [] OTHER -> {} :
          /\ h # tls.hello /\ (tls.rcvd => h # "filtered")
          /\ tls' = [tls EXCEPT !.hello = h]

\* The ends answer our handshake, send data, or close.  A second close before
\* the first is read is left out: the session ends all the same.
EndSends(s) ==
    /\ On /\ tls.msg[s] = "none"
    /\ \E m \in (IF tls.ssl[s] = "busy" /\ (IF s = "L" THEN tls.taken ELSE tls.sentHello)
                 THEN {"flight"} ELSE {})
              \cup (IF tls.sends[s] > 0 /\ tls.ssl[s] = "done" THEN {"data"} ELSE {})
              \cup (IF tls.msg[Other(s)] = "eof" THEN {} ELSE {"eof"}) :
          tls' = [tls EXCEPT !.msg[s] = m, !.sends[s] = IF m = "data" THEN 0 ELSE @]

\* The server accepts the connection.
TcpUp == On /\ ~tls.tcpUp /\ tls' = [tls EXCEPT !.tcpUp = TRUE]

\* process_pre_wait_rescans, at the start of a wait(): adding for reading comes
\* first and wins.
TlsRescan ==
    /\ On /\ tls.ins = {} /\ tls.outs = {} /\ \E s \in Sides : tls.resc[s] # {}
    /\ tls' = [tls EXCEPT !.resc = Both({}),
                   !.mon = [s \in Sides |->
                       IF tls.mon[s] # {} THEN tls.mon[s]
                       ELSE IF "in" \in tls.resc[s] THEN {"in"}
                       ELSE IF "out" \in tls.resc[s] THEN {"in", "out"} ELSE {}]]

\* cleanup and shutdown once the session is over.
TlsCleanup ==
    /\ tls.phase = "over" /\ tls.ssl # Both("null")
    /\ tls' = [tls EXCEPT !.ssl = Both("null")]

TlsNext ==
    \/ TlsPass \/ TlsHintPass \/ TlsRescan \/ TlsCleanup
    \/ TlsConnect \/ ClientHello \/ TcpUp
    \/ \E s \in Sides : EndSends(s)

\* The worker polls for ever, and its rescan timer expires before one of its
\* waits, however busy the session is; nothing is assumed of client, server and
\* hints.
TlsFairness ==
    WF_tls(TlsPass) /\ SF_tls(TlsRescan) /\ WF_tls(TlsCleanup)

TlsSpec == TlsInit /\ [][TlsNext]_tls /\ TlsFairness

-----------------------------------------------------------------------------
(* Properties.                                                             *)

\* The session record has its type.
TlsTypeOK == tls \in SessionType

\* A session bypassed because the client does not speak TLS, or because its
\* hello could not be parsed, has sent no hello of its own to the server: the
\* server sees the client's bytes only.
BypassUntouched ==
    tls.bypass /\ tls.hello # "filtered" => ~tls.sentHello

\* The client's hello is answered only when the server's certificate has its
\* verdict, so that the certificate shown to the client can follow from it.
VerdictFirst ==
    tls.taken /\ ~tls.bypass => tls.certOk /\ tls.tested

\* Something makes the worker run a pass over the session.
Awake ==
    \/ tls.ins \cup tls.outs # {}
    \/ \E s \in Sides : tls.enf[s] \/ InEvent(tls, s) \/ OutEvent(tls, s)

\* Bytes that OpenSSL decrypted but read() had no room for, where the poller
\* does not see them, are read by the next pass that any event of the session
\* brings, once the other side has written all it had and is no bottleneck any
\* more.  A bottleneck may outlast the enforced event, and a read deferred at
\* write_full spends the forced flag (late): nothing wakes the session then.
HeldIsRead ==
    \A s \in Sides :
        (/\ On /\ tls.held[s] /\ ~tls.late[s] /\ Awake
         /\ ~tls.out[Other(s)] /\ ~tls.neck[Other(s)]) ~> (~On \/ ~tls.held[s])

\* The handshakes hand over to each other, unless the rescan counters are
\* exceeded: once the client's hello is parsed and the server is connected, our
\* own hello is sent; and once the server's certificate was seen and judged, the
\* client's hello is answered, although the client's socket was taken out of
\* the poller while the server was asked.
HandshakeProgress ==
    /\ (On /\ ~tls.slow /\ tls.rcvd /\ tls.tcpUp) ~> (~On \/ tls.bypass \/ tls.sentHello)
    /\ (On /\ ~tls.slow /\ tls.certOk /\ tls.tested /\ tls.hello \in {"tls", "filtered"})
          ~> (~On \/ tls.bypass \/ tls.taken)

-----------------------------------------------------------------------------
(* The inductive invariant behind the two safety properties.               *)

\* Our own hello is only sent after the client's was parsed.
HelloAfterClient == tls.sentHello => tls.rcvd

\* L is let go, for reading or for writing, by com_status of R only, and before
\* that R has nothing to write and is no bottleneck, whose end would let L go.
PausedUntilReady ==
    tls.paused["L"] # {"read", "write"} \/ tls.out["R"] \/ tls.neck["R"] => ComStatus(tls)

TlsInv ==
    TlsTypeOK /\ BypassUntouched /\ VerdictFirst /\ HelloAfterClient /\ PausedUntilReady
=============================================================================
