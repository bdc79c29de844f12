---------------------------- MODULE TlsPair_proofs ----------------------------
(***************************************************************************)
(* Proofs about TlsPair: a session of any speed, whatever client, server   *)
(* and certificate verdict are.                                            *)
(***************************************************************************)
EXTENDS TlsPair, TLAPS

\* TlsInv of any session.
Sound(t) ==
    /\ t \in SessionType
    /\ t.bypass /\ t.hello # "filtered" => ~t.sentHello
    /\ t.sentHello => t.rcvd
    /\ t.taken => ComStatus(t)
    /\ t.paused["L"] # {"read", "write"} \/ t.out["R"] \/ t.neck["R"] => ComStatus(t)

LEMMA TlsInvIsSound == (TlsInv <=> Sound(tls)) /\ (TlsInv' <=> Sound(tls'))
BY DEF TlsInv, Sound, TlsTypeOK, BypassUntouched, VerdictFirst, HelloAfterClient,
       PausedUntilReady, ComStatus

\* u is t but for what the invariant does not look at.
Alike(t, u) ==
    /\ u \in SessionType
    /\ u.bypass = t.bypass /\ u.hello = t.hello /\ u.sentHello = t.sentHello
    /\ u.rcvd = t.rcvd /\ u.taken = t.taken /\ u.certOk = t.certOk /\ u.tested = t.tested
    /\ u.paused["L"] = t.paused["L"]
    /\ (u.out["R"] => t.out["R"]) /\ (u.neck["R"] => t.neck["R"])

LEMMA AlikeSound ==
    ASSUME NEW t, NEW u, Sound(t), Alike(t, u)
    PROVE  Sound(u) /\ (ComStatus(t) => ComStatus(u)) 
BY DEF Sound, Alike, ComStatus

LEMMA AlikeTrans ==
    ASSUME NEW t, NEW u, NEW v, Alike(t, u), Alike(u, v)
    PROVE  Alike(t, v)
BY DEF Alike

\* The monitor wrappers change interest and rescans.
LEMMA MonitorAlike ==
    ASSUME NEW t \in SessionType, NEW s \in Sides, NEW m \in SUBSET {"in", "out"}
    PROVE  /\ Alike(t, t) /\ Alike(t, SetMonitor(t, s)) /\ Alike(t, SetInterest(t, s, m))
           /\ Alike(t, UnsetMonitor(t, s)) /\ Alike(t, RescanRead(t, s))
           /\ Alike(t, RescanWrite(t, s)) /\ Alike(t, Ended(t))
<1>0. t.mon \in [Sides -> SUBSET {"in", "out"}] /\ t.resc \in [Sides -> SUBSET {"in", "out"}]
  BY DEF SessionType
<1>1. ASSUME NEW mon \in [Sides -> SUBSET {"in", "out"}],
             NEW resc \in [Sides -> SUBSET {"in", "out"}]
      PROVE  Alike(t, [t EXCEPT !.mon = mon, !.resc = resc])
  BY DEF SessionType, Alike
<1>2. ASSUME NEW mon \in [Sides -> SUBSET {"in", "out"}]
      PROVE  Alike(t, [t EXCEPT !.mon = mon])
  BY DEF SessionType, Alike
<1>3. Alike(t, t)
  BY DEF Alike
<1>4. Alike(t, SetMonitor(t, s))
  <2>1. [t EXCEPT !.mon[s] = {"in"}] = [t EXCEPT !.mon = [t.mon EXCEPT ![s] = {"in"}]]
    BY DEF SessionType
  <2>2. [t.mon EXCEPT ![s] = {"in"}] \in [Sides -> SUBSET {"in", "out"}]
    BY <1>0
  <2> QED
    BY <1>2, <1>3, <2>1, <2>2 DEF SetMonitor
<1>5. Alike(t, SetInterest(t, s, m))
  <2>1. [t EXCEPT !.mon[s] = m] = [t EXCEPT !.mon = [t.mon EXCEPT ![s] = m]]
    BY DEF SessionType
  <2>2. [t.mon EXCEPT ![s] = m] \in [Sides -> SUBSET {"in", "out"}]
    BY <1>0
  <2> QED
    BY <1>2, <2>1, <2>2 DEF SetInterest
<1>6. ASSUME NEW r \in SUBSET {"in", "out"}
      PROVE  Alike(t, [t EXCEPT !.mon[s] = {}, !.resc[s] = r])
  <2>1. [t EXCEPT !.mon[s] = {}, !.resc[s] = r]
            = [t EXCEPT !.mon = [t.mon EXCEPT ![s] = {}], !.resc = [t.resc EXCEPT ![s] = r]]
    BY DEF SessionType
  <2>2. /\ [t.mon EXCEPT ![s] = {}] \in [Sides -> SUBSET {"in", "out"}]
        /\ [t.resc EXCEPT ![s] = r] \in [Sides -> SUBSET {"in", "out"}]
    BY <1>0
  <2> QED
    BY <1>1, <2>1, <2>2
<1>7. /\ UnsetMonitor(t, s) = [t EXCEPT !.mon[s] = {}, !.resc[s] = {}]
      /\ RescanRead(t, s) = [t EXCEPT !.mon[s] = {}, !.resc[s] = t.resc[s] \cup {"in"}]
      /\ RescanWrite(t, s) = [t EXCEPT !.mon[s] = {}, !.resc[s] = t.resc[s] \cup {"out"}]
  BY DEF UnsetMonitor, RescanRead, RescanWrite, SessionType
<1>8. t.resc[s] \cup {"in"} \in SUBSET {"in", "out"} /\ t.resc[s] \cup {"out"} \in SUBSET {"in", "out"}
  BY <1>0
<1>9. Alike(t, Ended(t))
  <2>1. /\ Both("none") \in [Sides -> {"none", "flight", "data", "eof"}]
        /\ Both({}) \in [Sides -> SUBSET {"in", "out"}] /\ Both(FALSE) \in [Sides -> BOOLEAN]
        /\ ~Both(FALSE)["R"]
    BY DEF Both, Sides
  <2>2. Ended(t) \in SessionType
    BY <2>1 DEF Ended, SessionType
  <2> QED
    BY <2>1, <2>2 DEF Ended, SessionType, Alike
<1> QED
  BY <1>3, <1>4, <1>5, <1>6, <1>7, <1>8, <1>9

\* Waiting for an event, rescanning and timing out.
LEMMA WantAlike ==
    ASSUME NEW t \in SessionType, NEW s \in Sides, NEW m \in SUBSET {"in", "out"}
    PROVE  /\ \A u \in WantRead(t, s) : Alike(t, u)
           /\ \A u \in WantWrite(t, s, m) : Alike(t, u)
           /\ \A u \in Timeout(t) : Alike(t, u)
BY MonitorAlike DEF WantRead, WantWrite, Timeout, Slowed

-----------------------------------------------------------------------------
(* The client's hello.                                                     *)

\* A bypass is sound while no hello of ours is out, or for a filtered name.
LEMMA BypassSound ==
    ASSUME NEW t, Sound(t), t.sentHello => t.hello = "filtered"
    PROVE  Sound(BypassBoth(t))
<1>1. BypassBoth(t) \in SessionType
  BY DEF BypassBoth, Sound, SessionType
<1>2. LET u == BypassBoth(t)
      IN  /\ u.bypass = TRUE /\ u.hello = t.hello /\ u.sentHello = t.sentHello /\ u.rcvd = t.rcvd
  BY DEF BypassBoth, Sound, SessionType
<1> QED
  BY <1>1, <1>2 DEF Sound, ComStatus

\* waiting_peer_hello: it may bypass, and is done with once a hello was parsed.
LEMMA WaitingSound ==
    ASSUME NEW t, Sound(t)
    PROVE  \A u \in WaitingPeerHello(t) : Sound(u)
<1>0. t \in SessionType /\ "L" \in Sides /\ "R" \in Sides
  BY DEF Sound, Sides
<1>1. Sound(Ended(t)) /\ Sound(RescanRead(t, "L"))
  BY <1>0, MonitorAlike, AlikeSound
<1>2. ASSUME ~t.rcvd
      PROVE  Sound(SetMonitor([t EXCEPT !.rcvd = TRUE], "R")) /\ Sound(BypassBoth(t))
  <2> DEFINE r == [t EXCEPT !.rcvd = TRUE]
  <2>1. r \in SessionType
    BY <1>0 DEF SessionType
  <2>2. Sound(r)
    BY <1>0, <2>1 DEF Sound, ComStatus, SessionType
  <2> HIDE DEF r
  <2>3. Alike(r, SetMonitor(r, "R"))
    BY <1>0, <2>1, MonitorAlike
  <2>4. Sound(SetMonitor(r, "R"))
    BY <2>2, <2>3, AlikeSound
  <2>5. Sound(BypassBoth(t))
    BY <1>2, BypassSound DEF Sound
  <2> QED
    BY <2>4, <2>5 DEF r
<1> DEFINE After(p) ==
      CASE p = 1 -> {SetMonitor([t EXCEPT !.rcvd = TRUE], "R")}
        [] p = 0 -> {BypassBoth(t)}
        [] OTHER -> IF t.hello = "short" THEN {RescanRead(t, "L"), Ended(t)} ELSE {t}
<1>3. ASSUME ~t.rcvd, NEW p, NEW u \in After(p) PROVE Sound(u)
  BY <1>1, <1>2, <1>3
<1>4. ASSUME NEW u \in WaitingPeerHello(t)
      PROVE  \/ u \in {t, Ended(t)}
             \/ ~t.rcvd /\ \E p \in ParsePeerHello(t.hello) : u \in After(p)
  BY <1>4 DEF WaitingPeerHello
<1> HIDE DEF After
<1> QED
  BY <1>1, <1>3, <1>4

\* upgrade_client_socket: our hello follows a parsed one.
LEMMA UpgradeClientSound ==
    ASSUME NEW t, Sound(t), t.rcvd, ~t.bypass
    PROVE  Sound(UpgradeClient(t))
<1> DEFINE n == [t EXCEPT !.ssl["R"] = "busy", !.waiting["R"] = TRUE]
           h == [n EXCEPT !.sentHello = TRUE]
<1>0. t \in SessionType /\ "L" \in Sides /\ "R" \in Sides /\ {"out"} \in SUBSET {"in", "out"}
  BY DEF Sound, Sides
<1>1. n \in SessionType
  <2>1. n = [t EXCEPT !.ssl = [t.ssl EXCEPT !["R"] = "busy"],
                      !.waiting = [t.waiting EXCEPT !["R"] = TRUE]]
    BY <1>0 DEF SessionType
  <2>2. /\ [t.ssl EXCEPT !["R"] = "busy"] \in [Sides -> {"null", "busy", "done", "failed"}]
        /\ [t.waiting EXCEPT !["R"] = TRUE] \in [Sides -> BOOLEAN]
    BY <1>0 DEF SessionType
  <2> HIDE DEF n
  <2> QED
    BY <1>0, <2>1, <2>2 DEF SessionType
<1>2. Alike(t, n)
  BY <1>0, <1>1 DEF Alike, SessionType
<1>3. Sound(n)
  BY <1>2, AlikeSound
<1>4. n.rcvd /\ ~n.bypass
  BY <1>2 DEF Alike
<1> HIDE DEF n
<1>5. Sound(h)
  <2>1. h \in SessionType
    BY <1>1 DEF SessionType
  <2> QED
    BY <1>1, <1>3, <1>4, <2>1 DEF Sound, ComStatus, SessionType
<1> HIDE DEF h
<1>6. Sound(UnsetMonitor(h, "L"))
  BY <1>0, <1>5, MonitorAlike, AlikeSound DEF Sound
<1>7. Sound(UnsetMonitor(SetInterest(n, "R", {"out"}), "L"))
  <2>1. Alike(n, SetInterest(n, "R", {"out"}))
    BY <1>0, <1>1, MonitorAlike
  <2>2. Sound(SetInterest(n, "R", {"out"}))
    BY <1>3, <2>1, AlikeSound
  <2>3. Alike(SetInterest(n, "R", {"out"}), UnsetMonitor(SetInterest(n, "R", {"out"}), "L"))
    BY <1>0, <2>2, MonitorAlike DEF Sound
  <2> QED
    BY <2>2, <2>3, AlikeSound
<1> QED
  BY <1>6, <1>7 DEF UpgradeClient, n, h

LEMMA UpgradeClientSocketSound ==
    ASSUME NEW t, Sound(t)
    PROVE  \A u \in UpgradeClientSocket(t) : Sound(u)
BY WaitingSound, UpgradeClientSound DEF UpgradeClientSocket

LEMMA HandshakePeerClientSound ==
    ASSUME NEW t, Sound(t)
    PROVE  \A u \in HandshakePeerClient(t) : Sound(u)
<1>1. ASSUME NEW v, Sound(v) PROVE Sound(IF SniFilter(v) THEN BypassBoth(v) ELSE v)
  BY <1>1, BypassSound DEF SniFilter
<1>2. \A v \in (IF t.rcvd THEN {t} ELSE UpgradeClientSocket(t)) : Sound(v)
  BY UpgradeClientSocketSound
<1> QED
  BY <1>1, <1>2 DEF HandshakePeerClient

-----------------------------------------------------------------------------
(* The handshakes.                                                         *)

\* init_server makes an SSL object.
LEMMA UpgradeServerAlike ==
    ASSUME NEW t \in SessionType
    PROVE  Alike(t, UpgradeServer(t))
<1> DEFINE ssl == [t.ssl EXCEPT !["L"] = IF @ = "null" THEN "busy" ELSE @]
<1>1. UpgradeServer(t) = [t EXCEPT !.ssl = ssl]
  BY DEF UpgradeServer, SessionType
<1>2. ssl \in [Sides -> {"null", "busy", "done", "failed"}]
  BY DEF SessionType, Sides
<1> HIDE DEF ssl
<1>3. [t EXCEPT !.ssl = ssl] \in SessionType
  BY <1>2 DEF SessionType
<1>4. Alike(t, [t EXCEPT !.ssl = ssl])
  BY <1>3 DEF Alike, SessionType
<1> QED
  BY <1>1, <1>4

\* check_cert gives the verdict, and may take none back.
LEMMA CheckCertSound ==
    ASSUME NEW t, Sound(t)
    PROVE  \A u \in CheckCert(t) : Sound(u)
<1> DEFINE v == [t EXCEPT !.tested = t.tested \/ t.verdict]
           ok == [v EXCEPT !.certOk = TRUE]
<1>1. t \in SessionType /\ t.tested \in BOOLEAN /\ t.verdict \in BOOLEAN
  BY DEF Sound, SessionType
<1>2. v \in SessionType /\ ok \in SessionType
  BY <1>1 DEF SessionType
<1>3. /\ v.bypass = t.bypass /\ v.hello = t.hello /\ v.sentHello = t.sentHello
      /\ v.rcvd = t.rcvd /\ v.taken = t.taken /\ v.certOk = t.certOk /\ v.paused = t.paused
      /\ v.out = t.out /\ v.neck = t.neck /\ (t.tested => v.tested)
  BY <1>1 DEF SessionType
<1>4. /\ ok.bypass = v.bypass /\ ok.hello = v.hello /\ ok.sentHello = v.sentHello
      /\ ok.rcvd = v.rcvd /\ ok.taken = v.taken /\ ok.certOk = TRUE /\ ok.paused = v.paused
      /\ ok.out = v.out /\ ok.neck = v.neck /\ ok.tested = v.tested
  BY <1>2 DEF SessionType
<1>5. v = [t EXCEPT !.tested = @ \/ t.verdict]
  BY <1>1 DEF SessionType
<1>6. CheckCert(t) = {v, ok, IF t.waiting["L"] THEN UpgradeServer(ok) ELSE ok}
  BY <1>5 DEF CheckCert
<1> HIDE DEF v, ok
<1>7. Sound(v)
  BY <1>2, <1>3 DEF Sound, ComStatus
<1>8. Sound(ok)
  BY <1>2, <1>4, <1>7 DEF Sound, ComStatus
<1>9. Sound(UpgradeServer(ok))
  BY <1>2, <1>8, UpgradeServerAlike, AlikeSound
<1> QED
  BY <1>6, <1>7, <1>8, <1>9

\* handshake_client: SSL_connect and what follows it.
LEMMA HandshakeClientSound ==
    ASSUME NEW t, Sound(t), t.rcvd, ~t.bypass
    PROVE  \A u \in HandshakeClient(t) : Sound(u)
<1>0. t \in SessionType /\ "R" \in Sides /\ {"out"} \in SUBSET {"in", "out"}
  BY DEF Sound, Sides
<1>1. Sound(Ended(t)) /\ \A u \in WantWrite(t, "R", {"out"}) : Sound(u)
  BY <1>0, MonitorAlike, WantAlike, AlikeSound
<1>2. ASSUME NEW x \in {"done", "failed"}
      PROVE  Sound([t EXCEPT !.msg["R"] = "none", !.ssl["R"] = x])
  <2> DEFINE msg == [t.msg EXCEPT !["R"] = "none"]
             ssl == [t.ssl EXCEPT !["R"] = x]
  <2>1. [t EXCEPT !.msg["R"] = "none", !.ssl["R"] = x] = [t EXCEPT !.msg = msg, !.ssl = ssl]
    BY <1>0 DEF SessionType
  <2>2. /\ msg \in [Sides -> {"none", "flight", "data", "eof"}]
        /\ ssl \in [Sides -> {"null", "busy", "done", "failed"}]
    BY <1>0 DEF SessionType
  <2> HIDE DEF msg, ssl
  <2>3. Alike(t, [t EXCEPT !.msg = msg, !.ssl = ssl])
    BY <1>0, <2>2 DEF Alike, SessionType
  <2> QED
    BY <2>1, <2>3, AlikeSound
<1>3. ASSUME NEW v, Sound(v) PROVE Sound([v EXCEPT !.waiting["R"] = FALSE])
  <2> DEFINE w == [v.waiting EXCEPT !["R"] = FALSE]
  <2>0. v \in SessionType
    BY <1>3 DEF Sound
  <2>1. [v EXCEPT !.waiting["R"] = FALSE] = [v EXCEPT !.waiting = w]
    BY <2>0 DEF SessionType
  <2>2. w \in [Sides -> BOOLEAN]
    BY <1>0, <2>0 DEF SessionType
  <2> HIDE DEF w
  <2>3. Alike(v, [v EXCEPT !.waiting = w])
    BY <2>0, <2>2 DEF Alike, SessionType
  <2> QED
    BY <1>3, <2>1, <2>3, AlikeSound
<1> DEFINE d == [t EXCEPT !.msg["R"] = "none", !.ssl["R"] = "done"]
<1>4. \A v \in CheckCert(d) : Sound([v EXCEPT !.waiting["R"] = FALSE])
  BY <1>2, <1>3, CheckCertSound
<1>5. \A u \in WantRead([t EXCEPT !.sentHello = TRUE], "R") : Sound(u)
  <2> DEFINE h == [t EXCEPT !.sentHello = TRUE]
  <2>1. h \in SessionType
    BY <1>0 DEF SessionType
  <2>2. Sound(h)
    BY <1>0, <2>1 DEF Sound, ComStatus, SessionType
  <2> HIDE DEF h
  <2>3. \A u \in WantRead(h, "R") : Alike(h, u)
    BY <1>0, <2>1, WantAlike
  <2> QED
    BY <2>2, <2>3, AlikeSound DEF h
<1>6. ASSUME NEW u \in HandshakeClient(t)
      PROVE  \/ u = Ended(t)
             \/ u \in WantWrite(t, "R", {"out"})
             \/ u \in WantRead([t EXCEPT !.sentHello = TRUE], "R")
             \/ u = [t EXCEPT !.msg["R"] = "none", !.ssl["R"] = "failed"]
             \/ \E v \in CheckCert(d) : u = [v EXCEPT !.waiting["R"] = FALSE]
  BY <1>6, Zenon DEF HandshakeClient
<1> QED
  BY <1>1, <1>2, <1>4, <1>5, <1>6

\* The hello and the messages of a side are read.
LEMMA TakenSound ==
    ASSUME NEW t, Sound(t), ComStatus(t)
    PROVE  Sound([t EXCEPT !.taken = TRUE]) /\ ComStatus([t EXCEPT !.taken = TRUE])
<1>1. t \in SessionType
  BY DEF Sound
<1>2. [t EXCEPT !.taken = TRUE] \in SessionType
  BY <1>1 DEF SessionType
<1> QED
  BY <1>1, <1>2 DEF Sound, ComStatus, SessionType

\* SSL_accept of L, which R has let go.
LEMMA HandshakeServerSound ==
    ASSUME NEW t, Sound(t), ComStatus(t)
    PROVE  \A u \in HandshakeServer(t) : Sound(u) /\ ComStatus(u)
<1> DEFINE v == UpgradeServer(t)
           k == [v EXCEPT !.taken = TRUE]
           f == [v EXCEPT !.msg["L"] = "none", !.ssl["L"] = "done", !.waiting["L"] = FALSE]
<1>0. t \in SessionType /\ "L" \in Sides
  BY DEF Sound, Sides
<1>1. Sound(v) /\ ComStatus(v) /\ v \in SessionType
  BY <1>0, UpgradeServerAlike, AlikeSound DEF Sound
<1>2. Sound(Ended(t)) /\ ComStatus(Ended(t))
  BY <1>0, MonitorAlike, AlikeSound
<1> HIDE DEF v
<1>3. Sound(k) /\ ComStatus(k) /\ k \in SessionType
  BY <1>1, TakenSound DEF Sound
<1>4. Sound(f) /\ ComStatus(f)
  <2> DEFINE msg == [v.msg EXCEPT !["L"] = "none"]
             ssl == [v.ssl EXCEPT !["L"] = "done"]
             wai == [v.waiting EXCEPT !["L"] = FALSE]
  <2>1. f = [v EXCEPT !.msg = msg, !.ssl = ssl, !.waiting = wai]
    BY <1>1 DEF SessionType
  <2>2. /\ msg \in [Sides -> {"none", "flight", "data", "eof"}]
        /\ ssl \in [Sides -> {"null", "busy", "done", "failed"}]
        /\ wai \in [Sides -> BOOLEAN]
    BY <1>0, <1>1 DEF SessionType
  <2> HIDE DEF msg, ssl, wai
  <2>3. Alike(v, [v EXCEPT !.msg = msg, !.ssl = ssl, !.waiting = wai])
    BY <1>1, <2>2 DEF Alike, SessionType
  <2> QED
    BY <1>1, <2>1, <2>3, AlikeSound
<1> HIDE DEF k, f
<1>5. \A u \in WantRead(k, "L") \cup WantRead(v, "L") : Sound(u) /\ ComStatus(u)
  BY <1>0, <1>1, <1>3, WantAlike, AlikeSound
<1>6. ASSUME NEW u \in HandshakeServer(t)
      PROVE  u \in WantRead(k, "L") \/ u = Ended(t) \/ u = f \/ u \in WantRead(v, "L")
  BY <1>6, Zenon DEF HandshakeServer, v, k, f
<1> QED
  BY <1>2, <1>4, <1>5, <1>6

\* handshake() of a side that may go on.
LEMMA HandshakeSound ==
    ASSUME NEW t, NEW s \in Sides, Sound(t), s = "L" => ComStatus(t)
    PROVE  \A u \in Handshake(t, s) : Sound(u) /\ (s = "L" => ComStatus(u))
<1>1. CASE s = "L"
  BY <1>1, HandshakeServerSound DEF Handshake
<1>2. CASE s = "R"
  <2> DEFINE After(u) == CASE u.phase = "over" -> {u}
                           [] ~u.rcvd \/ u.bypass -> {RescanRead(UnsetMonitor(u, "R"), "R")}
                           [] OTHER -> HandshakeClient(u)
  <2>1. ASSUME NEW u \in HandshakePeerClient(t), NEW w \in After(u) PROVE Sound(w)
    <3>1. Sound(u) /\ u \in SessionType
      BY HandshakePeerClientSound DEF Sound
    <3>2. Sound(RescanRead(UnsetMonitor(u, "R"), "R"))
      <4>1. Alike(u, UnsetMonitor(u, "R"))
        BY <1>2, <3>1, MonitorAlike
      <4>2. UnsetMonitor(u, "R") \in SessionType
        BY <4>1 DEF Alike
      <4>3. Alike(UnsetMonitor(u, "R"), RescanRead(UnsetMonitor(u, "R"), "R"))
        BY <1>2, <4>2, MonitorAlike
      <4> QED
        BY <3>1, <4>1, <4>3, AlikeSound
    <3>3. u.rcvd /\ ~u.bypass => \A x \in HandshakeClient(u) : Sound(x)
      BY <3>1, HandshakeClientSound
    <3> QED
      BY <2>1, <3>1, <3>2, <3>3
  <2>2. Handshake(t, s) = UNION {After(u) : u \in HandshakePeerClient(t)}
    BY <1>2 DEF Handshake
  <2> HIDE DEF After
  <2> QED
    BY <1>2, <2>1, <2>2
<1> QED
  BY <1>1, <1>2 DEF Sides

-----------------------------------------------------------------------------
(* Reading and writing.                                                    *)

LEMMA SidesOther ==
    ASSUME NEW s \in Sides
    PROVE  Other(s) \in Sides
BY DEF Sides, Other

\* Messages, decrypted bytes and forced reads change.
LEMMA BuffersAlike ==
    ASSUME NEW t \in SessionType, NEW msg \in [Sides -> {"none", "flight", "data", "eof"}],
           NEW held \in [Sides -> BOOLEAN], NEW late \in [Sides -> BOOLEAN],
           NEW forced \in [Sides -> BOOLEAN], NEW enf \in [Sides -> BOOLEAN]
    PROVE  Alike(t, [t EXCEPT !.msg = msg, !.held = held, !.late = late,
                              !.forced = forced, !.enf = enf])
<1> DEFINE u == [t EXCEPT !.msg = msg, !.held = held, !.late = late,
                          !.forced = forced, !.enf = enf]
<1>1. u \in SessionType
  BY DEF SessionType
<1> QED
  BY <1>1 DEF Alike, SessionType

\* The bytes a side has read are the other one's to write: R's only come from an
\* L that was let go.
LEMMA PassOnSound ==
    ASSUME NEW t, NEW s \in Sides, Sound(t), s = "L" => ComStatus(t)
    PROVE  Sound(PassOn(t, s))
<1> DEFINE out == [t.out EXCEPT ![Other(s)] = TRUE]
           mon == [t.mon EXCEPT ![Other(s)] = {"in", "out"}]
           u == [t EXCEPT !.out = out, !.mon = mon]
<1>0. /\ t \in SessionType /\ Other(s) \in Sides
      /\ t.out \in [Sides -> BOOLEAN] /\ t.mon \in [Sides -> SUBSET {"in", "out"}]
  BY SidesOther DEF Sound, SessionType
<1>1. PassOn(t, s) = u
  BY <1>0 DEF PassOn, SessionType
<1>2. out \in [Sides -> BOOLEAN] /\ mon \in [Sides -> SUBSET {"in", "out"}]
  BY <1>0
<1>3. s = "R" => out["R"] = t.out["R"]
  BY <1>0 DEF Other, Sides
<1> HIDE DEF out, mon
<1>4. u \in SessionType
  BY <1>0, <1>2 DEF SessionType
<1>5. /\ u.bypass = t.bypass /\ u.hello = t.hello /\ u.sentHello = t.sentHello
      /\ u.rcvd = t.rcvd /\ u.taken = t.taken /\ u.certOk = t.certOk /\ u.tested = t.tested
      /\ u.paused = t.paused /\ u.neck = t.neck /\ u.out = out
  BY <1>0 DEF SessionType
<1> HIDE DEF u
<1>6. s = "L" \/ s = "R"
  BY DEF Sides
<1> QED
  BY <1>1, <1>3, <1>4, <1>5, <1>6 DEF Sound, ComStatus

\* L4Proto::read of a bypassed session.
LEMMA RawReadSound ==
    ASSUME NEW t, NEW s \in Sides, Sound(t), t.bypass
    PROVE  \A u \in RawRead(t, s) : Sound(u)
<1> DEFINE k == [t EXCEPT !.taken = TRUE]
           msg == [t.msg EXCEPT ![s] = "none"]
           m == [t EXCEPT !.msg[s] = "none"]
<1>0. /\ t \in SessionType /\ ComStatus(t)
      /\ t.msg \in [Sides -> {"none", "flight", "data", "eof"}] /\ t.held \in [Sides -> BOOLEAN]
      /\ t.late \in [Sides -> BOOLEAN] /\ t.forced \in [Sides -> BOOLEAN]
      /\ t.enf \in [Sides -> BOOLEAN]
  BY DEF Sound, SessionType, ComStatus
<1>1. Sound(Ended(t))
  BY <1>0, MonitorAlike, AlikeSound
<1>2. Sound(PassOn(k, s))
  BY <1>0, TakenSound, PassOnSound
<1>3. Sound(PassOn(m, s))
  <2>1. msg \in [Sides -> {"none", "flight", "data", "eof"}]
    BY <1>0
  <2>2. m = [t EXCEPT !.msg = msg, !.held = t.held, !.late = t.late,
                      !.forced = t.forced, !.enf = t.enf]
    BY <1>0 DEF SessionType
  <2> HIDE DEF m, msg
  <2>3. Alike(t, m)
    BY <1>0, <2>1, <2>2, BuffersAlike
  <2> QED
    BY <1>0, <2>3, AlikeSound, PassOnSound
<1>4. ASSUME NEW u \in RawRead(t, s)
      PROVE  u = Ended(t) \/ u = t \/ u = PassOn(k, s) \/ u = PassOn(m, s)
  BY <1>4, Zenon DEF RawRead
<1> QED
  BY <1>1, <1>2, <1>3, <1>4

\* SSL_read changes buffers and interest.
LEMMA SslReadSound ==
    ASSUME NEW t, NEW s \in Sides, Sound(t), s = "L" => ComStatus(t)
    PROVE  \A u \in SslRead(t, s) : Sound(u)
<1>0. /\ t \in SessionType
      /\ t.msg \in [Sides -> {"none", "flight", "data", "eof"}] /\ t.held \in [Sides -> BOOLEAN]
      /\ t.late \in [Sides -> BOOLEAN] /\ t.forced \in [Sides -> BOOLEAN]
      /\ t.enf \in [Sides -> BOOLEAN]
  BY DEF Sound, SessionType
<1> DEFINE a == [t EXCEPT !.held[s] = FALSE, !.late[s] = FALSE]
           b == [t EXCEPT !.msg[s] = "none"]
           c == [t EXCEPT !.msg[s] = "none", !.held[s] = TRUE, !.forced[s] = TRUE, !.enf[s] = TRUE]
           msg == [t.msg EXCEPT ![s] = "none"]
           Set(f, x) == [f EXCEPT ![s] = x]
<1>1. Sound(Ended(t)) /\ \A u \in WantRead(t, s) \cup Timeout(t) : Sound(u)
  BY <1>0, MonitorAlike, WantAlike, AlikeSound
<1>2. /\ msg \in [Sides -> {"none", "flight", "data", "eof"}]
      /\ \A f \in [Sides -> BOOLEAN], x \in BOOLEAN : Set(f, x) \in [Sides -> BOOLEAN]
  BY <1>0
<1>3. /\ a = [t EXCEPT !.msg = t.msg, !.held = Set(t.held, FALSE), !.late = Set(t.late, FALSE),
                       !.forced = t.forced, !.enf = t.enf]
      /\ b = [t EXCEPT !.msg = msg, !.held = t.held, !.late = t.late,
                       !.forced = t.forced, !.enf = t.enf]
      /\ c = [t EXCEPT !.msg = msg, !.held = Set(t.held, TRUE), !.late = t.late,
                       !.forced = Set(t.forced, TRUE), !.enf = Set(t.enf, TRUE)]
  BY <1>0 DEF SessionType
<1>4. Sound(PassOn(a, s)) /\ Sound(PassOn(b, s)) /\ Sound(PassOn(c, s))
  <2> HIDE DEF a, b, c, msg, Set
  <2>1. Alike(t, a)
    BY <1>0, <1>2, <1>3, BuffersAlike
  <2>2. Alike(t, b)
    BY <1>0, <1>2, <1>3, BuffersAlike
  <2>3. Alike(t, c)
    BY <1>0, <1>2, <1>3, BuffersAlike
  <2> QED
    BY <2>1, <2>2, <2>3, AlikeSound, PassOnSound
<1>5. ASSUME NEW u \in SslRead(t, s)
      PROVE  \/ u \in {PassOn(a, s), PassOn(b, s), PassOn(c, s), Ended(t)}
             \/ u \in WantRead(t, s) \cup Timeout(t)
  <2> HIDE DEF msg, Set
  <2> QED
    BY <1>5, Zenon DEF SslRead
<1> HIDE DEF a, b, c
<1> QED
  BY <1>1, <1>4, <1>5

\* baseSSLCom::read of a side that may go on.
LEMMA SslComReadSound ==
    ASSUME NEW t, NEW s \in Sides, Sound(t), s = "L" => ComStatus(t)
    PROVE  \A u \in SslComRead(t, s) : Sound(u)
<1>1. ASSUME NEW u \in Handshake(t, s),
             NEW w \in (IF u.bypass /\ u.phase = "on" THEN RawRead(u, s) ELSE {u})
      PROVE  Sound(w)
  <2>1. Sound(u)
    BY HandshakeSound
  <2> QED
    BY <1>1, <2>1, RawReadSound
<1>2. \A u \in UNION {IF u.bypass /\ u.phase = "on" THEN RawRead(u, s) ELSE {u} :
                         u \in Handshake(t, s)} : Sound(u)
  BY <1>1
<1>3. t.bypass => \A u \in RawRead(t, s) : Sound(u)
  BY RawReadSound
<1>4. \A u \in SslRead(t, s) : Sound(u)
  BY SslReadSound
<1> QED
  BY <1>2, <1>3, <1>4 DEF SslComRead

\* What baseHostCX::write does after its Com took all, some or none.
LEMMA TookAlike ==
    ASSUME NEW t \in SessionType, NEW s \in Sides
    PROVE  Alike(t, TookAll(t, s)) /\ Alike(t, TookSome(t, s)) /\ Alike(t, TookNone(t, s))
<1> DEFINE out == [t.out EXCEPT ![s] = FALSE]
           u == [t EXCEPT !.out[s] = FALSE]
<1>0. t.out \in [Sides -> BOOLEAN]
  BY DEF SessionType
<1>1. u = [t EXCEPT !.out = out] /\ out \in [Sides -> BOOLEAN] /\ (out["R"] => t.out["R"])
  BY <1>0 DEF SessionType, Sides
<1> HIDE DEF u, out
<1>2. [t EXCEPT !.out = out] \in SessionType
  BY <1>1 DEF SessionType
<1>3. Alike(t, u) /\ u \in SessionType
  <2>1. [t EXCEPT !.out = out].out = out
    BY DEF SessionType
  <2>2. Alike(t, [t EXCEPT !.out = out])
    BY <1>1, <1>2, <2>1 DEF Alike, SessionType
  <2> QED
    BY <1>1, <1>2, <2>2
<1>4. Alike(u, SetInterest(u, s, {"in"})) /\ Alike(t, TookSome(t, s)) /\ Alike(t, TookNone(t, s))
  BY <1>3, MonitorAlike DEF TookSome, TookNone
<1>5. Alike(t, SetInterest(u, s, {"in"}))
  BY <1>3, <1>4, AlikeTrans
<1>6. TookAll(t, s) = IF t.neck[s] THEN SetInterest(u, s, {"in"}) ELSE u
  BY DEF TookAll, u
<1> QED
  BY <1>3, <1>4, <1>5, <1>6

\* L4Proto::write and SSL_write empty the output buffer, or wait.
LEMMA RawWriteSound ==
    ASSUME NEW t, NEW s \in Sides, Sound(t)
    PROVE  \A u \in RawWrite(t, s) \cup SslWrite(t, s) : Sound(u) /\ (ComStatus(t) => ComStatus(u))
<1>0. t \in SessionType /\ {"in", "out"} \in SUBSET {"in", "out"}
  BY DEF Sound
<1>1. \A u \in Timeout(t) : Alike(t, u)
  BY <1>0, WantAlike
<1>2. \A u \in RawWrite(t, s) \cup SslWrite(t, s) : Alike(t, u)
  BY <1>0, <1>1, TookAlike DEF RawWrite, SslWrite
<1> QED
  BY <1>2, AlikeSound

LEMMA SslComWriteSound ==
    ASSUME NEW t, NEW s \in Sides, Sound(t), s = "L" => ComStatus(t)
    PROVE  \A u \in SslComWrite(t, s) : Sound(u) /\ (s = "L" => ComStatus(u))
<1> DEFINE After(u) == IF u.bypass /\ u.phase = "on" THEN RawWrite(u, s) ELSE {TookNone(u, s)}
<1>1. ASSUME NEW u \in Handshake(t, s), NEW w \in After(u)
      PROVE  Sound(w) /\ (s = "L" => ComStatus(w))
  <2>1. Sound(u) /\ (s = "L" => ComStatus(u)) /\ u \in SessionType
    BY HandshakeSound DEF Sound
  <2>2. Sound(TookNone(u, s)) /\ (s = "L" => ComStatus(TookNone(u, s)))
    BY <2>1, TookAlike, AlikeSound
  <2> QED
    BY <1>1, <2>1, <2>2, RawWriteSound
<1> HIDE DEF After
<1>2. \A u \in UNION {After(v) : v \in Handshake(t, s)} : Sound(u) /\ (s = "L" => ComStatus(u))
  BY <1>1
<1>3. \A u \in RawWrite(t, s) \cup SslWrite(t, s) : Sound(u) /\ (s = "L" => ComStatus(u))
  BY RawWriteSound
<1>4. ASSUME NEW u \in SslComWrite(t, s)
      PROVE  \/ u \in UNION {After(v) : v \in Handshake(t, s)}
             \/ u \in RawWrite(t, s) \cup SslWrite(t, s)
             \/ u = t
  BY <1>4 DEF SslComWrite, After
<1> QED
  BY <1>2, <1>3, <1>4

-----------------------------------------------------------------------------
(* A pass over the session.                                                *)

\* The waiting flags change: L is let go where com_status is good.
LEMMA PausedSound ==
    ASSUME NEW t, Sound(t), NEW paused \in [Sides -> SUBSET {"read", "write"}],
           ComStatus(t) \/ paused["L"] = t.paused["L"] \/ paused["L"] = {"read", "write"}
    PROVE  Sound([t EXCEPT !.paused = paused])
<1> DEFINE u == [t EXCEPT !.paused = paused]
<1>0. t \in SessionType
  BY DEF Sound
<1>1. u \in SessionType
  BY <1>0 DEF SessionType
<1>2. /\ u.bypass = t.bypass /\ u.hello = t.hello /\ u.sentHello = t.sentHello
      /\ u.rcvd = t.rcvd /\ u.taken = t.taken /\ u.certOk = t.certOk /\ u.tested = t.tested
      /\ u.out = t.out /\ u.neck = t.neck /\ u.paused = paused
  BY <1>0 DEF SessionType
<1> HIDE DEF u
<1>3. Sound(u)
  BY <1>1, <1>2 DEF Sound, ComStatus
<1> QED
  BY <1>3 DEF u

\* read_ and write_waiting_for_peercom: L is let go by com_status only.
LEMMA PeercomCheckSound ==
    ASSUME NEW t, NEW s \in Sides, NEW op \in {"read", "write"}, Sound(t)
    PROVE  \A u \in PeercomCheck(t, s, op) : Sound(u)
<1> DEFINE paused == [t.paused EXCEPT ![s] = t.paused[s] \ {op}]
<1>0. /\ t \in SessionType /\ Other(s) \in Sides /\ {"in", "out"} \in SUBSET {"in", "out"}
      /\ t.paused \in [Sides -> SUBSET {"read", "write"}]
  BY SidesOther DEF Sound, SessionType
<1>1. \A u \in WantRead(t, Other(s)) \cup WantWrite(t, Other(s), {"in", "out"}) : Sound(u)
  BY <1>0, WantAlike, AlikeSound
<1>2. paused \in [Sides -> SUBSET {"read", "write"}] /\ (s # "L" => paused["L"] = t.paused["L"])
  BY <1>0 DEF Sides
<1>3. [t EXCEPT !.paused[s] = @ \ {op}] = [t EXCEPT !.paused = paused]
  BY <1>0 DEF SessionType
<1> HIDE DEF paused
<1>4. PeerReady(t, s) => Sound([t EXCEPT !.paused = paused])
  BY <1>2, PausedSound DEF PeerReady
<1>5. ASSUME NEW u \in PeercomCheck(t, s, op)
      PROVE  \/ u = t
             \/ PeerReady(t, s) /\ u = [t EXCEPT !.paused[s] = @ \ {op}]
             \/ u \in WantRead(t, Other(s)) \cup WantWrite(t, Other(s), {"in", "out"})
  BY <1>5, Zenon DEF PeercomCheck
<1> QED
  BY <1>1, <1>3, <1>4, <1>5

\* A side that may go has the verdict, or is bypassed.
LEMMA MayGoReady ==
    ASSUME NEW t, Sound(t), NEW op \in {"read", "write"}, MayGo(t, "L", op)
    PROVE  ComStatus(t)
BY DEF Sound, MayGo

LEMMA ReadOnceSound ==
    ASSUME NEW t, NEW s \in Sides, Sound(t)
    PROVE  \A u \in ReadOnce(t, s) : Sound(u)
<1> DEFINE Spent(u) == [u EXCEPT !.forced[s] = FALSE]
           Reads(u) == MayGo(u, s, "read") /\ ~u.neck[Other(s)] /\ (s \in u.ins \/ u.forced[s])
           After(u) == IF Reads(u) THEN Deferred(Spent(u), s) \cup SslComRead(Spent(u), s) ELSE {u}
<1>1. ASSUME NEW u, Sound(u) PROVE Alike(u, Spent(u))
  <2> DEFINE f == [u.forced EXCEPT ![s] = FALSE]
  <2>1. /\ u \in SessionType /\ f \in [Sides -> BOOLEAN]
        /\ u.msg \in [Sides -> {"none", "flight", "data", "eof"}] /\ u.held \in [Sides -> BOOLEAN]
        /\ u.late \in [Sides -> BOOLEAN] /\ u.enf \in [Sides -> BOOLEAN]
    BY <1>1 DEF Sound, SessionType
  <2>2. Spent(u) = [u EXCEPT !.msg = u.msg, !.held = u.held, !.late = u.late,
                             !.forced = f, !.enf = u.enf]
    BY <2>1 DEF SessionType
  <2> HIDE DEF f, Spent
  <2>3. Alike(u, [u EXCEPT !.msg = u.msg, !.held = u.held, !.late = u.late,
                           !.forced = f, !.enf = u.enf])
    BY <2>1, BuffersAlike
  <2> QED
    BY <2>2, <2>3
<1>2. ASSUME NEW v, Sound(v), NEW w \in Deferred(v, s) PROVE Sound(w)
  <2> DEFINE l == [v.late EXCEPT ![s] = v.held[s]]
             x == [v EXCEPT !.late[s] = v.held[s]]
  <2>1. /\ v \in SessionType /\ l \in [Sides -> BOOLEAN]
        /\ v.msg \in [Sides -> {"none", "flight", "data", "eof"}] /\ v.held \in [Sides -> BOOLEAN]
        /\ v.forced \in [Sides -> BOOLEAN] /\ v.enf \in [Sides -> BOOLEAN]
    BY <1>2 DEF Sound, SessionType
  <2>2. x = [v EXCEPT !.msg = v.msg, !.held = v.held, !.late = l,
                      !.forced = v.forced, !.enf = v.enf]
    BY <2>1 DEF SessionType
  <2>3. w = RescanRead(x, s)
    BY <1>2 DEF Deferred
  <2> HIDE DEF l, x
  <2>4. Alike(v, x) /\ x \in SessionType
    <3>1. Alike(v, [v EXCEPT !.msg = v.msg, !.held = v.held, !.late = l,
                             !.forced = v.forced, !.enf = v.enf])
      BY <2>1, BuffersAlike
    <3> QED
      BY <2>2, <3>1 DEF Alike
  <2>5. Alike(x, RescanRead(x, s))
    BY <2>4, MonitorAlike
  <2> QED
    BY <1>2, <2>3, <2>4, <2>5, AlikeSound
<1> HIDE DEF Spent
<1>3. ASSUME NEW u \in PeercomCheck(t, s, "read"), NEW w \in After(u) PROVE Sound(w)
  <2>0. Sound(u)
    BY PeercomCheckSound
  <2>1. Sound(Spent(u)) /\ (ComStatus(u) => ComStatus(Spent(u)))
    BY <1>1, <2>0, AlikeSound
  <2>2. MayGo(u, s, "read") /\ s = "L" => ComStatus(u)
    BY <2>0, MayGoReady
  <2>3. MayGo(u, s, "read") => \A x \in SslComRead(Spent(u), s) : Sound(x)
    BY <2>1, <2>2, SslComReadSound
  <2>4. \A x \in Deferred(Spent(u), s) : Sound(x)
    BY <1>2, <2>1
  <2> QED
    BY <1>3, <2>0, <2>3, <2>4
<1>4. ReadOnce(t, s) = UNION {After(u) : u \in PeercomCheck(t, s, "read")}
  BY DEF ReadOnce, Spent
<1> HIDE DEF After
<1> QED
  BY <1>3, <1>4

\* A bottleneck of R starts with bytes that L gave it, and so does its end.
LEMMA AfterWriteSound ==
    ASSUME NEW t, NEW s \in Sides, Sound(t), s = "L" => ComStatus(t)
    PROVE  Sound(AfterWrite(t, s))
<1>0. /\ t \in SessionType /\ Other(s) \in Sides /\ {"in", "out"} \in SUBSET {"in", "out"}
      /\ t.paused \in [Sides -> SUBSET {"read", "write"}] /\ t.neck \in [Sides -> BOOLEAN]
      /\ s = "L" \/ s = "R"
  BY SidesOther DEF Sound, SessionType, Sides
<1>1. ASSUME NEW v, Sound(v), NEW x \in BOOLEAN, ~x \/ s = "L" \/ ComStatus(v)
      PROVE  /\ Sound([v EXCEPT !.neck[s] = x])
             /\ ComStatus(v) => ComStatus([v EXCEPT !.neck[s] = x])
             /\ [v EXCEPT !.neck[s] = x].paused = v.paused
  <2> DEFINE neck == [v.neck EXCEPT ![s] = x]
             w == [v EXCEPT !.neck[s] = x]
  <2>1. v \in SessionType /\ v.neck \in [Sides -> BOOLEAN]
    BY <1>1 DEF Sound, SessionType
  <2>2. /\ neck \in [Sides -> BOOLEAN] /\ w = [v EXCEPT !.neck = neck]
        /\ neck["R"] => v.neck["R"] \/ ComStatus(v)
    BY <1>0, <1>1, <2>1 DEF SessionType, Sides
  <2> HIDE DEF neck
  <2>3. w \in SessionType
    BY <2>1, <2>2 DEF SessionType
  <2>4. /\ w.bypass = v.bypass /\ w.hello = v.hello /\ w.sentHello = v.sentHello
        /\ w.rcvd = v.rcvd /\ w.taken = v.taken /\ w.certOk = v.certOk /\ w.tested = v.tested
        /\ w.out = v.out /\ w.neck = neck /\ w.paused = v.paused
    BY <2>1, <2>2 DEF SessionType
  <2> HIDE DEF w
  <2>5. Sound(w) /\ (ComStatus(v) => ComStatus(w))
    BY <1>1, <2>2, <2>3, <2>4 DEF Sound, ComStatus
  <2> QED
    BY <2>4, <2>5 DEF w
<1>2. CASE t.phase = "on" /\ t.out[s]
  <2> DEFINE i == SetInterest(t, s, {"in", "out"})
             u == UnsetMonitor(i, Other(s))
             n == [u EXCEPT !.neck[s] = TRUE]
             p == [x \in Sides |-> IF x = s THEN {} ELSE u.paused[x] \cup {"read"}]
             r == [u EXCEPT !.neck[s] = TRUE, !.paused[s] = {}, !.paused[Other(s)] = @ \cup {"read"}]
  <2>1. ComStatus(t)
    BY <1>0, <1>2 DEF Sound
  <2>2. Alike(t, i) /\ i \in SessionType
    BY <1>0, MonitorAlike DEF Alike
  <2> HIDE DEF i
  <2>3. Alike(i, u) /\ u \in SessionType
    <3>1. Alike(i, u)
      BY <1>0, <2>2, MonitorAlike
    <3> QED
      BY <3>1 DEF Alike
  <2>4. Sound(u) /\ ComStatus(u)
    BY <2>1, <2>2, <2>3, AlikeSound
  <2>5. AfterWrite(t, s) = r
    BY <1>2 DEF AfterWrite, Bottleneck, i, u
  <2> HIDE DEF u
  <2>6. Sound(n) /\ ComStatus(n)
    BY <1>1, <2>4
  <2>7. u.paused \in [Sides -> SUBSET {"read", "write"}] /\ u.neck \in [Sides -> BOOLEAN]
    BY <2>3 DEF SessionType
  <2>8. p \in [Sides -> SUBSET {"read", "write"}]
    BY <2>7
  <2>9. r = [n EXCEPT !.paused = p]
    <3>1. [[u.paused EXCEPT ![s] = {}] EXCEPT ![Other(s)] = u.paused[Other(s)] \cup {"read"}] = p
      BY <1>0, <2>7 DEF Other, Sides
    <3>2. Other(s) # s
      BY <1>0 DEF Other
    <3>3. r = [n EXCEPT !.paused = [[u.paused EXCEPT ![s] = {}]
                                       EXCEPT ![Other(s)] = u.paused[Other(s)] \cup {"read"}]]
      BY <1>0, <2>3, <2>7, <3>2 DEF SessionType
    <3> QED
      BY <3>1, <3>3
  <2> HIDE DEF n, p, r
  <2>10. Sound([n EXCEPT !.paused = p])
    BY <2>6, <2>8, PausedSound
  <2> QED
    BY <2>5, <2>9, <2>10
<1>3. CASE t.phase = "on" /\ ~t.out[s] /\ t.neck[s]
  <2> DEFINE i == SetInterest(t, Other(s), {"in"})
             n == [i EXCEPT !.neck[s] = FALSE]
             p == [i.paused EXCEPT ![Other(s)] = i.paused[Other(s)] \ {"read"}]
  <2>1. ComStatus(t)
    BY <1>0, <1>3 DEF Sound
  <2>2. Alike(t, i) /\ i \in SessionType
    BY <1>0, MonitorAlike DEF Alike
  <2>3. Sound(i) /\ ComStatus(i)
    BY <2>1, <2>2, AlikeSound
  <2>4. AfterWrite(t, s) = [n EXCEPT !.paused = p]
    BY <1>0, <1>3 DEF AfterWrite, BottleneckOver, SetInterest, SessionType
  <2> HIDE DEF i
  <2>5. i.paused \in [Sides -> SUBSET {"read", "write"}]
    BY <2>2 DEF SessionType
  <2>6. p \in [Sides -> SUBSET {"read", "write"}]
    BY <1>0, <2>5
  <2>7. Sound(n) /\ ComStatus(n)
    BY <1>1, <2>3
  <2> HIDE DEF n, p
  <2> QED
    BY <2>4, <2>6, <2>7, PausedSound
<1>4. CASE ~(t.phase = "on" /\ t.out[s]) /\ ~(t.phase = "on" /\ ~t.out[s] /\ t.neck[s])
  BY <1>4 DEF AfterWrite
<1> QED
  BY <1>2, <1>3, <1>4

LEMMA WriteOnceSound ==
    ASSUME NEW t, NEW s \in Sides, Sound(t)
    PROVE  \A u \in WriteOnce(t, s) : Sound(u)
<1> DEFINE Left(u, w) == IF u.out[s] THEN AfterWrite(w, s) ELSE w
           After(u) == IF MayGo(u, s, "write") THEN {Left(u, w) : w \in SslComWrite(u, s)} ELSE {u}
<1>1. ASSUME NEW u \in PeercomCheck(t, s, "write"), NEW x \in After(u) PROVE Sound(x)
  <2>0. Sound(u)
    BY PeercomCheckSound
  <2>1. MayGo(u, s, "write") /\ s = "L" => ComStatus(u)
    BY <2>0, MayGoReady
  <2>2. MayGo(u, s, "write") => \A w \in SslComWrite(u, s) : Sound(w) /\ (s = "L" => ComStatus(w))
    BY <2>0, <2>1, SslComWriteSound
  <2>3. MayGo(u, s, "write") => \A w \in SslComWrite(u, s) : Sound(Left(u, w))
    BY <2>2, AfterWriteSound
  <2> HIDE DEF Left
  <2> QED
    BY <1>1, <2>0, <2>3
<1>2. WriteOnce(t, s) = UNION {After(u) : u \in PeercomCheck(t, s, "write")}
  BY DEF WriteOnce
<1> HIDE DEF After
<1> QED
  BY <1>1, <1>2

\* handle_sockets_once keeps a session sound.
LEMMA PassSound ==
    ASSUME NEW t, Sound(t)
    PROVE  \A u \in PassOutcomes(t) : Sound(u)
<1> DEFINE r1 == ReadOnce(t, "L")
           r2 == UNION {ReadOnce(u, "R") : u \in r1}
           w1 == UNION {WriteOnce(u, "L") : u \in r2}
<1>0. "L" \in Sides /\ "R" \in Sides
  BY DEF Sides
<1>2. \A u \in r1 : Sound(u)
  BY <1>0, ReadOnceSound
<1> HIDE DEF r1
<1>3. \A u \in r2 : Sound(u)
  BY <1>0, <1>2, ReadOnceSound
<1> HIDE DEF r2
<1>4. \A u \in w1 : Sound(u)
  BY <1>0, <1>3, WriteOnceSound
<1> HIDE DEF w1
<1>5. \A u \in UNION {WriteOnce(v, "R") : v \in w1} : Sound(u)
  BY <1>0, <1>4, WriteOnceSound
<1>6. PassOutcomes(t) = UNION {WriteOnce(v, "R") : v \in w1}
  BY DEF PassOutcomes, r1, r2, w1
<1> QED
  BY <1>5, <1>6

\* wait() and the handling of what it reported.
LEMMA ReportedSound ==
    ASSUME NEW t, Sound(t), NEW s
    PROVE  Sound(Reported(t)) /\ Sound(Handled(t, s))
<1>0. t \in SessionType
  BY DEF Sound
<1>1. Sound(EpollEvents(t))
  <2> DEFINE outs == {x \in Sides : OutEvent(t, x) /\ ~InEvent(t, x)}
             ins == {x \in Sides : InEvent(t, x) \/ t.enf[x]}
             mon == [x \in Sides |-> IF x \in outs THEN {"in"} ELSE t.mon[x]]
             u == [t EXCEPT !.ins = ins, !.outs = outs, !.enf = Both(FALSE), !.mon = mon]
  <2>1. /\ mon \in [Sides -> SUBSET {"in", "out"}] /\ Both(FALSE) \in [Sides -> BOOLEAN]
        /\ ins \in SUBSET Sides /\ outs \in SUBSET Sides
    BY <1>0 DEF SessionType, Both
  <2>2. EpollEvents(t) = u
    BY DEF EpollEvents
  <2> HIDE DEF mon, ins, outs
  <2>3. u \in SessionType
    BY <1>0, <2>1 DEF SessionType
  <2>4. Alike(t, u)
    BY <1>0, <2>3 DEF Alike, SessionType
  <2> QED
    BY <2>2, <2>4, AlikeSound
<1>2. ASSUME NEW ins \in SUBSET Sides, NEW outs \in SUBSET Sides
      PROVE  Sound([t EXCEPT !.ins = ins]) /\ Sound([t EXCEPT !.outs = outs])
  <2>1. Alike(t, [t EXCEPT !.ins = ins]) /\ Alike(t, [t EXCEPT !.outs = outs])
    BY <1>0 DEF Alike, SessionType
  <2> QED
    BY <2>1, AlikeSound
<1>3. t.ins \ {s} \in SUBSET Sides /\ t.outs \ {s} \in SUBSET Sides
  BY <1>0 DEF SessionType
<1>4. Handled(t, s) \in {[t EXCEPT !.ins = t.ins \ {s}], [t EXCEPT !.outs = t.outs \ {s}]}
  BY <1>0 DEF Handled, SessionType
<1> QED
  BY <1>1, <1>2, <1>3, <1>4 DEF Reported

-----------------------------------------------------------------------------
(* The steps.                                                              *)

LEMMA TlsInitSound == TlsInit => Sound(tls)
BY DEF TlsInit, Sound, SessionType, Both, Sides, Hellos, ComStatus

\* connect() upgrades R and registers both sides.
LEMMA TlsConnectSound ==
    ASSUME Sound(tls), TlsConnect
    PROVE  Sound(tls')
<1> DEFINE n == [tls EXCEPT !.phase = "on"]
<1>0. tls \in SessionType /\ "L" \in Sides /\ "R" \in Sides
  BY DEF Sound, Sides
<1>1. Sound(n)
  <2>1. Alike(tls, n)
    BY <1>0 DEF Alike, SessionType
  <2> QED
    BY <2>1, AlikeSound
<1>2. PICK v \in BOOLEAN, u \in UpgradeClientSocket(n) :
          tls' = [SetMonitor(SetMonitor(u, "L"), "R") EXCEPT !.verdict = v]
  BY DEF TlsConnect
<1> HIDE DEF n
<1> DEFINE a == SetMonitor(u, "L")
           b == SetMonitor(a, "R")
<1>3. Sound(u) /\ u \in SessionType
  BY <1>1, UpgradeClientSocketSound DEF Sound
<1>4. Sound(a) /\ a \in SessionType
  BY <1>0, <1>3, MonitorAlike, AlikeSound DEF Sound
<1> HIDE DEF a
<1>5. Sound(b) /\ b \in SessionType
  BY <1>0, <1>4, MonitorAlike, AlikeSound DEF Sound
<1>6. tls' = [b EXCEPT !.verdict = v]
  BY <1>2 DEF a
<1> HIDE DEF b
<1>7. Alike(b, [b EXCEPT !.verdict = v])
  BY <1>5 DEF Alike, SessionType
<1> QED
  BY <1>5, <1>6, <1>7, AlikeSound

\* More of the client's hello arrives.  What arrives before a filtered name is
\* known can already be bypassed, but then no hello of ours is out.
LEMMA ClientHelloSound ==
    ASSUME Sound(tls), ClientHello
    PROVE  Sound(tls')
<1>0. tls \in SessionType
  BY DEF Sound
<1>1. PICK h \in Hellos : tls.hello # "filtered" /\ tls' = [tls EXCEPT !.hello = h]
  <2>1. PICK h : /\ h \in CASE tls.hello = "none" -> Hellos \ {"none"}
                            [] tls.hello \in {"short", "partial"} -> {"partial", "tls", "filtered"}
                            [] OTHER -> {}
                 /\ tls' = [tls EXCEPT !.hello = h]
    BY DEF ClientHello
  <2>2. h \in Hellos /\ tls.hello \in {"none", "short", "partial"}
    BY <2>1 DEF Hellos
  <2> QED
    BY <2>1, <2>2
<1>2. tls' \in SessionType
  BY <1>0, <1>1 DEF SessionType
<1> QED
  BY <1>0, <1>1, <1>2 DEF Sound, ComStatus, SessionType

\* The ends send, the server accepts, rescans and cleanup run.
LEMMA OtherStepsSound ==
    ASSUME Sound(tls), (\E s \in Sides : EndSends(s)) \/ TcpUp \/ TlsRescan \/ TlsCleanup
    PROVE  Sound(tls')
<1>0. tls \in SessionType
  BY DEF Sound
<1>1. ASSUME NEW s \in Sides, EndSends(s) PROVE Sound(tls')
  <2>1. PICK m \in {"flight", "data", "eof"} :
            tls' = [tls EXCEPT !.msg[s] = m, !.sends[s] = IF m = "data" THEN 0 ELSE @]
    BY <1>1 DEF EndSends
  <2> DEFINE msg == [tls.msg EXCEPT ![s] = m]
             sends == [tls.sends EXCEPT ![s] = IF m = "data" THEN 0 ELSE @]
  <2>2. tls' = [tls EXCEPT !.msg = msg, !.sends = sends]
    BY <1>0, <2>1 DEF SessionType
  <2>3. msg \in [Sides -> {"none", "flight", "data", "eof"}] /\ sends \in [Sides -> 0..1]
    BY <1>0 DEF SessionType
  <2> HIDE DEF msg, sends
  <2>4. Alike(tls, [tls EXCEPT !.msg = msg, !.sends = sends])
    BY <1>0, <2>3 DEF Alike, SessionType
  <2> QED
    BY <2>2, <2>4, AlikeSound
<1>2. CASE TcpUp
  <2>1. tls' \in SessionType
    BY <1>0, <1>2 DEF TcpUp, SessionType
  <2> QED
    BY <1>0, <1>2, <2>1 DEF TcpUp, Sound, ComStatus, SessionType
<1>3. ASSUME NEW ssl \in [Sides -> {"null", "busy", "done", "failed"}],
             NEW mon \in [Sides -> SUBSET {"in", "out"}],
             NEW resc \in [Sides -> SUBSET {"in", "out"}]
      PROVE  Sound([tls EXCEPT !.ssl = ssl, !.mon = mon, !.resc = resc])
  <2>1. Alike(tls, [tls EXCEPT !.ssl = ssl, !.mon = mon, !.resc = resc])
    BY <1>0 DEF Alike, SessionType
  <2> QED
    BY <2>1, AlikeSound
<1>4. CASE TlsRescan
  <2> DEFINE mon == [s \in Sides |->
                       IF tls.mon[s] # {} THEN tls.mon[s]
                       ELSE IF "in" \in tls.resc[s] THEN {"in"}
                       ELSE IF "out" \in tls.resc[s] THEN {"in", "out"} ELSE {}]
  <2>1. /\ mon \in [Sides -> SUBSET {"in", "out"}] /\ Both({}) \in [Sides -> SUBSET {"in", "out"}]
        /\ tls.ssl \in [Sides -> {"null", "busy", "done", "failed"}]
    BY <1>0 DEF SessionType, Both
  <2>2. tls' = [tls EXCEPT !.resc = Both({}), !.mon = mon]
    BY <1>4 DEF TlsRescan
  <2> HIDE DEF mon
  <2>3. tls' = [tls EXCEPT !.ssl = tls.ssl, !.mon = mon, !.resc = Both({})]
    BY <1>0, <2>2 DEF SessionType
  <2> QED
    BY <1>3, <2>1, <2>3
<1>5. CASE TlsCleanup
  <2>1. /\ Both("null") \in [Sides -> {"null", "busy", "done", "failed"}]
        /\ tls.mon \in [Sides -> SUBSET {"in", "out"}]
        /\ tls.resc \in [Sides -> SUBSET {"in", "out"}]
    BY <1>0 DEF Both, SessionType
  <2>2. tls' = [tls EXCEPT !.ssl = Both("null"), !.mon = tls.mon, !.resc = tls.resc]
    BY <1>0, <1>5 DEF TlsCleanup, SessionType
  <2> QED
    BY <1>3, <2>1, <2>2
<1> QED
  BY <1>1, <1>2, <1>4, <1>5

LEMMA TlsStepSound ==
    ASSUME Sound(tls), [TlsNext]_tls
    PROVE  Sound(tls')
<1>1. CASE TlsHintPass
  BY <1>1, PassSound DEF TlsHintPass
<1>2. CASE TlsPass
  <2>1. \E u \in PassOutcomes(Reported(tls)) : \E s : tls' = Handled(u, s)
    BY <1>2 DEF TlsPass
  <2> QED
    BY <2>1, ReportedSound, PassSound
<1>3. CASE UNCHANGED tls
  BY <1>3 DEF Sound, ComStatus
<1> QED
  BY <1>1, <1>2, <1>3, TlsConnectSound, ClientHelloSound, OtherStepsSound DEF TlsNext

-----------------------------------------------------------------------------
(* Theorems.                                                               *)

\* TlsInv holds in every session.
THEOREM TlsInvariant == TlsSpec => []TlsInv
<1>1. TlsInit => TlsInv
  BY TlsInitSound, TlsInvIsSound
<1>2. TlsInv /\ [TlsNext]_tls => TlsInv'
  BY TlsStepSound, TlsInvIsSound
<1> QED
  BY <1>1, <1>2, PTL DEF TlsSpec

\* No session that is bypassed for want of a TLS hello (waiting_peer_hello) has
\* written a hello of the proxy's own to the server.
THEOREM TlsBypassUntouched == TlsSpec => []BypassUntouched
<1>1. TlsInv => BypassUntouched
  BY DEF TlsInv
<1> QED
  BY <1>1, TlsInvariant, PTL

\* L's SSL_accept reads the client's hello after check_cert and the verdict of
\* R only, whatever events, rescans and hints make the two sides run.
THEOREM TlsVerdictFirst == TlsSpec => []VerdictFirst
<1>1. TlsInv => VerdictFirst
  BY DEF TlsInv
<1> QED
  BY <1>1, TlsInvariant, PTL

\* The session record keeps its type.
THEOREM TlsTypesKept == TlsSpec => []TlsTypeOK
<1>1. TlsInv => TlsTypeOK
  BY DEF TlsInv
<1> QED
  BY <1>1, TlsInvariant, PTL
=============================================================================
