----------------------------- MODULE CertStatus -----------------------------
(***************************************************************************)
(* The verdict on a server certificate (sslcom.tpp, sslmitmcom.tpp,        *)
(* sslcertval.cpp).  Each connection to the same server is a client-side   *)
(* SSLCom of some worker; OpenSSL calls its verify, status, transparency   *)
(* and client certificate callbacks, in this order, and every callback     *)
(* edits the flags of verify_get().  The connections meet in three caches  *)
(* of SSLFactory: verify_cache (OCSP answers), crl_cache and               *)
(* session_cache.                                                          *)
(*                                                                         *)
(* One certificate, so one verify_cache and one session_cache entry; the   *)
(* CRL distribution points of the certificate are the sequence Urls.  What *)
(* responders, downloads and stapled answers say is chosen by the step     *)
(* that reads them.                                                        *)
(***************************************************************************)
EXTENDS Integers, Sequences

CONSTANTS
    Conns,      \* connections to the server
    Urls,       \* crl_urls(cert)
    Errors,     \* the problems the verify callback may meet
    Policies,   \* the options a connection may be given
    MaxDepth    \* bound: depth of the longest chain

Tolerable == {"UNKNOWN_ISSUER", "SELF_SIGNED_CHAIN", "SELF_SIGNED", "INVALID"}
ASSUME ErrorsAssumption == Errors \subseteq Tolerable
ASSUME MaxDepthAssumption == MaxDepth \in Nat
ASSUME UrlsAssumption == Urls \in Seq(STRING)

\* verify_status_t
VrfFlags == Tolerable \cup {"OK", "REVOKED", "CLIENT_CERT_RQ", "HOSTNAME_FAILED",
    "CT_MISSING", "CT_FAILED", "DEFERRED", "EXTENDED_INFO", "ALLFAILED", "NOTTESTED"}

\* The part of baseSSLCom::opt that the callbacks read.
PolicyType == [allow : SUBSET Tolerable, repl : BOOLEAN, staple : BOOLEAN,
               mode : 0..2, enforce : BOOLEAN, ct : BOOLEAN,
               client : 0..2, tickets : BOOLEAN, store : BOOLEAN]
ASSUME PoliciesAssumption == Policies \subseteq PolicyType

\* A CRL: it is not trusted, or it is and does or does not list the certificate.
Crls == {"untrusted", "listed", "clean"}
\* What may say that the certificate is revoked: a stapled answer, what the
\* responders or verify_cache answer, a trusted CRL that lists it.
Reports == {"staple", "answer", "listed"}
NoCrl == "NoCrl"        \* nullptr
Uncached == "Uncached"  \* no entry in crl_cache
NoConn == "NoConn"
ASSUME NoConnAssumption == NoConn \notin Conns

VARIABLES
    certOpt,        \* opt of each connection; enforce_in_verify changes
    certPc,         \* what OpenSSL or the running callback does next
    vrf,        \* verify_get()
    chainDepth,      \* certificates of the chain still to be verified
    known,      \* which of sslcom_target_cert and _issuer are set
    ocspResult,     \* VerifyStatus.revoked of the running check
    urlIdx,     \* position in the loop over crl_urls
    crlStruct,  \* crl_struct of the running loop
    offered,    \* SSL_set_session was given a session
    spoof,      \* how the certificate shown to the client was made
    verifyCache,    \* {}, or the cached answer for the certificate
    crlCache,       \* the entry of each distribution point
    crlLock,        \* who holds the lock of crl_cache
    sessionOf,      \* the connection whose session session_cache holds
    heard       \* history: which reports that it is revoked the connection met

connVars == <<certOpt, certPc, vrf, chainDepth, known, ocspResult, urlIdx, crlStruct,
              offered, spoof, heard>>
certVars == <<connVars, verifyCache, crlCache, crlLock, sessionOf>>

\* The members of baseSSLCom::opt as they are declared.
DefaultPolicy == [allow |-> {}, repl |-> TRUE, staple |-> FALSE, mode |-> 0,
                  enforce |-> FALSE, ct |-> TRUE, client |-> 1,
                  tickets |-> TRUE, store |-> TRUE]

CertInit ==
    /\ certOpt = [c \in Conns |-> DefaultPolicy]
    /\ certPc = [c \in Conns |-> "idle"]
    /\ vrf = [c \in Conns |-> {"NOTTESTED"}]
    /\ chainDepth = [c \in Conns |-> 0]
    /\ known = [c \in Conns |-> {}]
    /\ ocspResult = [c \in Conns |-> -1]
    /\ urlIdx = [c \in Conns |-> 1]
    /\ crlStruct = [c \in Conns |-> NoCrl]
    /\ offered = [c \in Conns |-> FALSE]
    /\ spoof = [c \in Conns |-> "none"]
    /\ heard = [c \in Conns |-> {}]
    /\ verifyCache = {}
    /\ crlCache = [i \in DOMAIN Urls |-> Uncached]
    /\ crlLock = NoConn
    /\ sessionOf = NoConn

-----------------------------------------------------------------------------
(* Setting up the client side.                                             *)

\* load_session_if_needed: a cached session is offered to the server.
LoadSession(c, p) ==
    offered' = [offered EXCEPT ![c] = p.tickets /\ sessionOf # NoConn]

\* init_ssl_callbacks: without a trust store the status check fails open.
Callbacks(p) ==
    IF p.staple /\ ~p.store THEN [p EXCEPT !.mode = 0] ELSE p

\* init_client; d is the depth of the root in the server's chain.
InitClient(c, p, d) ==
    /\ certPc[c] = "idle"
    /\ certOpt' = [certOpt EXCEPT ![c] = Callbacks(p)]
    /\ chainDepth' = [chainDepth EXCEPT ![c] = d]
    /\ LoadSession(c, p)
    /\ certPc' = [certPc EXCEPT ![c] = "hello"]
    /\ UNCHANGED <<vrf, known, ocspResult, urlIdx, crlStruct, spoof,
                   heard, verifyCache, crlCache, crlLock, sessionOf>>

-----------------------------------------------------------------------------
(* The verify callback.                                                    *)

StatusInstalled(c) == certOpt[c].staple /\ certOpt[c].store

\* The switch over err_code: an error goes on when it is allowed or when the
\* certificate will be replaced anyway.
Tolerates(c, e) == e \in certOpt[c].allow \/ certOpt[c].repl

\* ssl_client_vrfy_callback, called from the root of the chain to its leaf.
VerifyCallback(c, err, sha1) ==
    /\ certPc[c] \in {"hello", "chain"}
    /\ known' = [known EXCEPT ![c] = @ \cup
           CASE chainDepth[c] = 0 -> {"cert"} [] chainDepth[c] = 1 -> {"issuer"} [] OTHER -> {}]
    /\ vrf' = [vrf EXCEPT ![c] = @ \cup ({err} \ {"V_OK"}) \cup
           IF chainDepth[c] = 1 /\ sha1 THEN {"EXTENDED_INFO"} ELSE {}]
    /\ chainDepth' = [chainDepth EXCEPT ![c] = IF @ = 0 THEN 0 ELSE @ - 1]
    /\ certPc' = [certPc EXCEPT ![c] =
           IF err # "V_OK" /\ ~Tolerates(c, err) THEN "failed"
           ELSE IF chainDepth[c] > 0 THEN "chain"
           ELSE IF StatusInstalled(c) THEN "status" ELSE "ct"]
    /\ UNCHANGED <<certOpt, ocspResult, urlIdx, crlStruct, offered, spoof, heard,
                   verifyCache, crlCache, crlLock, sessionOf>>

-----------------------------------------------------------------------------
(* The status callback.                                                    *)

\* The connection meets a report, if there is one.
Hears(c, from, revoked) ==
    heard' = [heard EXCEPT ![c] = IF revoked THEN @ \cup {from} ELSE @]

\* What check_revocation_stapling finds: no body, an answer it cannot use,
\* an answer whose signature fails, or a verified answer.
Staples == {"missing", "unusable", "unverified", "good", "revoked", "unknown"}

\* check_revocation_stapling: every failure but the signature's turns on the
\* query at the end.
Enforces(s) == s \in {"missing", "unusable"}

\* is_verify_status_opt_allowed: each tolerable problem is covered by its
\* option, and nothing else is left.
OptAllowed(c, v) ==
    /\ v \cap Tolerable \subseteq certOpt[c].allow
    /\ v \ (Tolerable \cup {"OK", "DEFERRED", "ALLFAILED"}) \subseteq {"CLIENT_CERT_RQ"}

\* Mutant: problems found by the verify callback are not looked at,
\* and the revocation check alone decides.
NoProblems(v) == {}

\* The flags that end the callback before any revocation check.
Problems(v) ==
    IF "CLIENT_CERT_RQ" \in v THEN {} ELSE v \ {"NOTTESTED", "DEFERRED", "OK"}

Return(c, ok) == certPc' = [certPc EXCEPT ![c] = IF ok THEN "ct" ELSE "failed"]

\* status_resp_callback: problems are known already.
StatusKnownBad(c) ==
    /\ certPc[c] = "status" /\ Problems(vrf[c]) # {}
    /\ LET v == vrf[c] \ {"NOTTESTED"}
       IN  IF OptAllowed(c, v)
           THEN vrf' = [vrf EXCEPT ![c] = v \cup {"OK"}] /\ Return(c, TRUE)
           ELSE /\ vrf' = [vrf EXCEPT ![c] = (v \ {"OK"}) \cup {"ALLFAILED"}]
                /\ Return(c, certOpt[c].repl)
    /\ UNCHANGED <<certOpt, chainDepth, known, ocspResult, urlIdx, crlStruct, offered,
                   spoof, heard, verifyCache, crlCache, crlLock, sessionOf>>

\* certificate_status_oob_check up to the query: DEFERRED goes, and without
\* enforce_in_verify the default action is taken.
OobCheck(c, v, enforce, dflt) ==
    /\ vrf' = [vrf EXCEPT ![c] = v \ {"DEFERRED"}]
    /\ certOpt' = [certOpt EXCEPT ![c].enforce = enforce]
    /\ IF enforce THEN certPc' = [certPc EXCEPT ![c] = "query"] ELSE Return(c, dflt = 1)

\* status_resp_callback: the chain had no issuer, query in any case.
StatusNoIssuer(c) ==
    /\ certPc[c] = "status" /\ Problems(vrf[c]) = {} /\ known[c] # {"cert", "issuer"}
    /\ OobCheck(c, vrf[c] \ {"NOTTESTED"}, TRUE, IF certOpt[c].mode >= 2 THEN 0 ELSE 1)
    /\ UNCHANGED <<chainDepth, known, ocspResult, urlIdx, crlStruct, offered, spoof, heard,
                   verifyCache, crlCache, crlLock, sessionOf>>

\* status_resp_callback: the stapled answer, or the query in its place.
StatusStapled(c, s) ==
    /\ certPc[c] = "status" /\ Problems(vrf[c]) = {} /\ known[c] = {"cert", "issuer"}
    /\ LET v == vrf[c] \ {"NOTTESTED"}
           w == IF s \in {"good", "revoked", "unknown"} THEN v \ {"OK"} ELSE v
       IN  CASE s = "good" ->
                  /\ vrf' = [vrf EXCEPT ![c] = w \cup {"OK"}]
                  /\ Return(c, TRUE)
                  /\ UNCHANGED certOpt
             [] s = "revoked" ->
                  /\ vrf' = [vrf EXCEPT ![c] = w \cup {"REVOKED"}]
                  /\ Return(c, certOpt[c].repl)
                  /\ UNCHANGED certOpt
             [] OTHER ->
                  OobCheck(c, IF certOpt[c].mode >= 2 THEN w \ {"OK"} ELSE w,
                           certOpt[c].enforce \/ Enforces(s),
                           IF certOpt[c].mode >= 2 THEN 0 ELSE 1)
    /\ Hears(c, "staple", s = "revoked")
    /\ UNCHANGED <<chainDepth, known, ocspResult, urlIdx, crlStruct, offered, spoof,
                   verifyCache, crlCache, crlLock, sessionOf>>

-----------------------------------------------------------------------------
(* certificate_status_ocsp_check.                                          *)

\* The first lines: both certificates are needed; verify_cache is looked up,
\* and the lookup's lock is given back before the responder is asked.
QueryLookup(c) ==
    /\ certPc[c] = "query"
    /\ IF known[c] # {"cert", "issuer"}
       THEN /\ ocspResult' = [ocspResult EXCEPT ![c] = -1]
            /\ certPc' = [certPc EXCEPT ![c] = "conclude"]
            /\ UNCHANGED heard
       ELSE IF verifyCache # {}
       THEN \E r \in verifyCache :
            /\ ocspResult' = [ocspResult EXCEPT ![c] = r]
            /\ Hears(c, "answer", r = 1)
            /\ certPc' = [certPc EXCEPT ![c] = IF r < 0 THEN "crl" ELSE "conclude"]
       ELSE /\ certPc' = [certPc EXCEPT ![c] = "asking"]
            /\ UNCHANGED <<ocspResult, heard>>
    /\ UNCHANGED <<certOpt, vrf, chainDepth, known, urlIdx, crlStruct, offered, spoof,
                   verifyCache, crlCache, crlLock, sessionOf>>

\* The single responses of an OCSP answer: is it for this certificate, its
\* status, and whether the time of its next update can be read.
Singles == [mine : BOOLEAN, status : {"good", "revoked", "unknown"}, readable : BOOLEAN]

\* One turn of the loop of ocsp_verify_response over the single responses.
\* matching_ids stays set once a response matched.  ASN1_TIME_diff() > 0 tells
\* that the time was read, not that it is to come: a late answer counts like one
\* in time (and expires at once in verify_cache).
SingleStep(acc, s) ==
    LET m == acc.matching \/ s.mine
    IN  [matching |-> m,
         revoked |-> IF ~m THEN acc.revoked
                     ELSE CASE s.status = "revoked" \/ ~s.readable -> 1
                            [] s.status = "good" /\ s.readable -> 0
                            [] OTHER -> acc.revoked]

\* ocsp_verify_response for a verified answer of at most two responses.
OcspVerifyResponse(s1, s2) ==
    LET one == SingleStep([matching |-> FALSE, revoked |-> -1], s1)
        two == SingleStep(one, s2)
    IN  IF two.matching THEN two.revoked ELSE -1

\* ocsp_check_cert: the responders of the certificate are asked in turn, all of
\* them, since is_revoked stays -1 in the loop; the last answer replaces what
\* earlier ones said.  No answer, an error status or an unverified answer is -1.
OcspAnswers == {-1} \cup {OcspVerifyResponse(s1, s2) : s1, s2 \in Singles}

OcspAnswer(c, r) ==
    /\ certPc[c] = "asking"
    /\ ocspResult' = [ocspResult EXCEPT ![c] = r]
    /\ Hears(c, "answer", r = 1)
    /\ certPc' = [certPc EXCEPT ![c] = "answered"]
    /\ UNCHANGED <<certOpt, vrf, chainDepth, known, urlIdx, crlStruct, offered, spoof,
                   verifyCache, crlCache, crlLock, sessionOf>>

\* The answer is stored, over whatever another connection stored meanwhile.
VerifyCacheSet(c) ==
    /\ certPc[c] = "answered"
    /\ verifyCache' = {ocspResult[c]}
    /\ certPc' = [certPc EXCEPT ![c] = IF ocspResult[c] < 0 THEN "crl" ELSE "conclude"]
    /\ UNCHANGED <<certOpt, vrf, chainDepth, known, ocspResult, urlIdx, crlStruct, offered,
                   spoof, heard, crlCache, crlLock, sessionOf>>

\* scoped_lock on crl_cache for the whole loop, downloads included.
CrlLoopEnter(c) ==
    /\ certPc[c] = "crl" /\ crlLock = NoConn
    /\ IF Len(Urls) = 0
       THEN certPc' = [certPc EXCEPT ![c] = "conclude"] /\ UNCHANGED crlLock
       ELSE certPc' = [certPc EXCEPT ![c] = "url"] /\ crlLock' = c
    /\ urlIdx' = [urlIdx EXCEPT ![c] = 1]
    /\ crlStruct' = [crlStruct EXCEPT ![c] = NoCrl]
    /\ UNCHANGED <<certOpt, vrf, chainDepth, known, ocspResult, offered, spoof, heard,
                   verifyCache, crlCache, sessionOf>>

\* inet::download of a CRL and crl_from_bytes: it fails, gives something that
\* is no CRL, or a CRL.
Downloads == {"failed", "garbage"} \cup Crls

\* crl_is_revoked_by: a CRL signed by the issuer is looked up, but a hit does
\* not change the result.
CrlIsRevokedBy(crl) == 0

\* crl_verify_trust, then crl_is_revoked_by.
CrlVerdict(crl) ==
    IF crl \in {NoCrl, "untrusted"} THEN -1 ELSE CrlIsRevokedBy(crl)

\* One turn of the loop over crl_urls.  A cached entry is looked at but not
\* taken over into crl_struct, which keeps the CRL of an earlier turn.
CrlUrl(c, d) ==
    LET i == urlIdx[c]
        cached == crlCache[i] # Uncached
        crl == IF cached \/ d = "failed" THEN crlStruct[c]
               ELSE IF d = "garbage" THEN NoCrl ELSE d
        r == CrlVerdict(crl)
        last == r >= 0 \/ i = Len(Urls)
    IN  /\ certPc[c] = "url"
        /\ cached => d = "failed"
        /\ crlStruct' = [crlStruct EXCEPT ![c] = crl]
        /\ crlCache' = [crlCache EXCEPT ![i] =
               CASE cached \/ d = "garbage" -> @ [] d = "failed" -> NoCrl [] OTHER -> d]
        /\ Hears(c, "listed", crl = "listed")
        /\ ocspResult' = [ocspResult EXCEPT ![c] = r]
        /\ urlIdx' = [urlIdx EXCEPT ![c] = IF last THEN 1 ELSE i + 1]
        /\ certPc' = [certPc EXCEPT ![c] = IF last THEN "conclude" ELSE "url"]
        /\ crlLock' = IF last THEN NoConn ELSE c
        /\ UNCHANGED <<certOpt, vrf, chainDepth, known, offered, spoof,
                       verifyCache, sessionOf>>

\* The flags at the end of certificate_status_ocsp_check.
CheckFlags(v, r) ==
    CASE r > 0 -> (v \ {"OK"}) \cup {"REVOKED"}
      [] r = 0 -> v \cup {"OK"}
      [] OTHER -> (v \ {"OK"}) \cup {"DEFERRED"}

\* Mutant: an unknown status is let through with the default action.
OobUnknownPasses(c, r) == r = 0 \/ certOpt[c].repl \/ (r < 0 /\ certOpt[c].mode >= 1)

\* What certificate_status_oob_check returns.
OobResult(c, r) == r = 0 \/ certOpt[c].repl

\* The end of the check and the rest of certificate_status_oob_check.
Conclude(c) ==
    /\ certPc[c] = "conclude"
    /\ LET v == CheckFlags(vrf[c], ocspResult[c])
       IN  vrf' = [vrf EXCEPT ![c] = IF ocspResult[c] < 0 THEN v \cup {"ALLFAILED"} ELSE v]
    /\ Return(c, OobResult(c, ocspResult[c]))
    /\ crlStruct' = [crlStruct EXCEPT ![c] = NoCrl]
    /\ ocspResult' = [ocspResult EXCEPT ![c] = -1]
    /\ UNCHANGED <<certOpt, chainDepth, known, urlIdx, offered, spoof,
                   heard, verifyCache, crlCache, crlLock, sessionOf>>

-----------------------------------------------------------------------------
(* Transparency, client certificate, and the end of the handshake.         *)

\* What the SCTs of the server amount to: fewer than two; an invalid one;
\* fewer than two valid ones, and whether some failed otherwise.
ScTs == {"few", "invalid", "valid", "partly", "unverified"}

\* ct_verify_callback.
CtCallback(c, s) ==
    /\ certPc[c] = "ct"
    /\ ~certOpt[c].ct => s = "valid"
    /\ LET v == vrf[c] \ {"OK"}
       IN  vrf' = [vrf EXCEPT ![c] =
               CASE s = "few" -> v \cup {"CT_MISSING"}
                 [] s = "invalid" -> v \cup {"CT_FAILED"}
                 [] s = "unverified" -> v \cup {"CT_MISSING", "CT_FAILED"}
                 [] s = "partly" -> @ \cup {"CT_FAILED"}
                 [] OTHER -> @]
    /\ certPc' = [certPc EXCEPT ![c] =
           IF s \in {"few", "invalid"} /\ ~certOpt[c].repl THEN "failed" ELSE "client"]
    /\ UNCHANGED <<certOpt, chainDepth, known, ocspResult, urlIdx, crlStruct, offered,
                   spoof, heard, verifyCache, crlCache, crlLock, sessionOf>>

\* ssl_client_cert_callback, when the server asks for a certificate.
ClientCertCallback(c, asked) ==
    /\ certPc[c] = "client"
    /\ vrf' = [vrf EXCEPT ![c] = IF asked THEN @ \cup {"CLIENT_CERT_RQ"} ELSE @]
    /\ certPc' = [certPc EXCEPT ![c] =
           IF asked /\ certOpt[c].client = 0 /\ ~certOpt[c].repl THEN "failed" ELSE "finish"]
    /\ UNCHANGED <<certOpt, chainDepth, known, ocspResult, urlIdx, crlStruct, offered,
                   spoof, heard, verifyCache, crlCache, crlLock, sessionOf>>

\* baseSSLMitmCom::check_cert, the flags: a certificate with nothing but OK is
\* compared with the SNI or the address.
HostnameFlags(v, match) == IF v = {"OK"} /\ ~match THEN v \cup {"HOSTNAME_FAILED"} ELSE v

\* baseSSLMitmCom::check_cert, the spoof options: a copy of the original, a
\* copy with names added, or a self-signed one.
SpoofKind(c, v, match) ==
    CASE v = {"OK"} /\ match -> "copy"
      [] certOpt[c].repl -> "replacement"
      [] OTHER -> "selfSigned"

\* Mutant: every session of a verified certificate is kept.
StorableIfOk(v) == "OK" \in v

\* store_session_if_needed: only crystal OK sessions.
Storable(v) == v = {"OK"}

\* handshake() of a client after SSL_connect: check_cert, then store_session.
Finish(c, match, resumable) ==
    /\ certPc[c] = "finish"
    /\ LET v == HostnameFlags(vrf[c], match)
       IN  /\ vrf' = [vrf EXCEPT ![c] = v]
           /\ spoof' = [spoof EXCEPT ![c] = SpoofKind(c, vrf[c], match)]
           /\ sessionOf' = IF certOpt[c].tickets /\ resumable /\ Storable(v)
                           THEN c ELSE sessionOf
    /\ certPc' = [certPc EXCEPT ![c] = "done"]
    /\ UNCHANGED <<certOpt, chainDepth, known, ocspResult, urlIdx, crlStruct, offered,
                   heard, verifyCache, crlCache, crlLock>>

\* handshake() of a resumed session: no callback ran, check_cert sees
\* NOTTESTED, and store_session_if_needed then trusts the site.
Resume(c) ==
    /\ certPc[c] = "hello" /\ offered[c]
    /\ spoof' = [spoof EXCEPT ![c] = SpoofKind(c, vrf[c], FALSE)]
    /\ vrf' = [vrf EXCEPT ![c] = (@ \ {"NOTTESTED"}) \cup {"OK"}]
    /\ certPc' = [certPc EXCEPT ![c] = "resumed"]
    /\ UNCHANGED <<certOpt, chainDepth, known, ocspResult, urlIdx, crlStruct, offered,
                   heard, verifyCache, crlCache, crlLock, sessionOf>>

\* Entries of the caches expire (expiring_ptr) or are displaced.
CacheExpiry ==
    /\ \/ verifyCache # {} /\ verifyCache' = {}
          /\ UNCHANGED <<crlCache, sessionOf>>
       \/ \E i \in DOMAIN Urls : crlLock = NoConn /\ crlCache[i] # Uncached
              /\ crlCache' = [crlCache EXCEPT ![i] = Uncached]
              /\ UNCHANGED <<verifyCache, sessionOf>>
       \/ sessionOf # NoConn /\ sessionOf' = NoConn
          /\ UNCHANGED <<verifyCache, crlCache>>
    /\ UNCHANGED <<connVars, crlLock>>

CertStep(c) ==
    \/ \E err \in Errors \cup {"V_OK"}, sha1 \in BOOLEAN : VerifyCallback(c, err, sha1)
    \/ StatusKnownBad(c)
    \/ StatusNoIssuer(c)
    \/ \E s \in Staples : StatusStapled(c, s)
    \/ QueryLookup(c)
    \/ \E r \in OcspAnswers : OcspAnswer(c, r)
    \/ VerifyCacheSet(c)
    \/ CrlLoopEnter(c)
    \/ \E d \in Downloads : CrlUrl(c, d)
    \/ Conclude(c)
    \/ \E s \in ScTs : CtCallback(c, s)
    \/ \E asked \in BOOLEAN : ClientCertCallback(c, asked)
    \/ \E match, resumable \in BOOLEAN : Finish(c, match, resumable)
    \/ Resume(c)

CertNext ==
    \/ \E c \in Conns, p \in Policies, d \in 0..MaxDepth : InitClient(c, p, d)
    \/ \E c \in Conns : CertStep(c)
    \/ CacheExpiry

CertSpec == CertInit /\ [][CertNext]_certVars

-----------------------------------------------------------------------------
(* Properties.                                                             *)

Pcs == {"idle", "hello", "chain", "status", "query", "asking", "answered", "crl", "url",
        "conclude", "ct", "client", "finish", "done", "resumed", "failed"}

\* Every variable of the certificate check has its type.
CertTypeOK ==
    /\ certOpt \in [Conns -> PolicyType]
    /\ certPc \in [Conns -> Pcs]
    /\ vrf \in [Conns -> SUBSET VrfFlags]
    /\ chainDepth \in [Conns -> 0..MaxDepth]
    /\ known \in [Conns -> SUBSET {"cert", "issuer"}]
    /\ ocspResult \in [Conns -> -1..1]
    /\ urlIdx \in [Conns -> DOMAIN Urls \cup {1}]
    /\ crlStruct \in [Conns -> Crls \cup {NoCrl}]
    /\ offered \in [Conns -> BOOLEAN]
    /\ spoof \in [Conns -> {"none", "copy", "replacement", "selfSigned"}]
    /\ heard \in [Conns -> SUBSET Reports]
    /\ verifyCache = {} \/ \E r \in -1..1 : verifyCache = {r}
    /\ crlCache \in [DOMAIN Urls -> Crls \cup {NoCrl, Uncached}]
    /\ crlLock \in Conns \cup {NoConn}
    /\ sessionOf \in Conns \cup {NoConn}

\* A connection that came through a full handshake carries OK only if neither
\* its stapled answer nor the answer of the responders, its own or the cached
\* one of another connection, was that the certificate is revoked, and every
\* problem the verify callback met is one the options allow: the callbacks that
\* run later never wash away what an earlier one found.  It is about what the
\* code takes for an answer: a CRL that lists the certificate is not reported
\* (sslcertval.cpp:54, see ListedIsRevoked), and of several responders the last
\* one counts (sslcertval.cpp:572).
OkMeansClean ==
    \A c \in Conns : certPc[c] = "done" /\ "OK" \in vrf[c] =>
        /\ heard[c] \subseteq {"listed"}
        /\ vrf[c] \cap {"REVOKED", "ALLFAILED", "CT_MISSING"} = {}
        /\ vrf[c] \cap Tolerable \subseteq certOpt[c].allow

\* With stapling required (stapling_mode 2) and no replacement page, a
\* handshake only completes when a staple, a responder or a trusted CRL (one
\* that lists the certificate counts as good, see ListedIsRevoked) settled the
\* status, or the options exempt the certificate, whatever the caches held and
\* whichever answer failed: OK stands, unless the transparency check that comes
\* afterwards took it back for CT_MISSING.
RequiredStatusKnown ==
    \A c \in Conns :
        certPc[c] = "done" /\ StatusInstalled(c) /\ certOpt[c].mode = 2 /\ ~certOpt[c].repl =>
            "OK" \in vrf[c] \/ "CT_MISSING" \in vrf[c]

\* A session offered for resumption was stored by a connection whose verdict
\* is OK and nothing else, also after the checks that follow the handshake:
\* what a resumed connection is trusted for has been established once.
TrustedSessions ==
    /\ sessionOf # NoConn => certPc[sessionOf] = "done" /\ vrf[sessionOf] = {"OK"}
    /\ \A c \in Conns : certPc[c] = "resumed" => vrf[c] = {"OK"}

\* A certificate that a trusted CRL lists, met in the loop over the
\* distribution points, is reported revoked at the end of the check.
ListedIsRevoked ==
    \A c \in Conns : "listed" \in heard[c] /\ certPc[c] \in {"ct", "done"} => "REVOKED" \in vrf[c]

-----------------------------------------------------------------------------
(* The inductive invariant behind the three properties above: what each    *)
(* callback finds in verify_get() and leaves there.                        *)

\* Before the status check the flags are those of the verify callback; the
\* check of a clean chain starts from none at all.
FlagsBefore(c) ==
    /\ certPc[c] \in {"idle", "hello"} => vrf[c] = {"NOTTESTED"}
    /\ certPc[c] \in {"chain", "status"} =>
          vrf[c] \subseteq Tolerable \cup {"NOTTESTED", "EXTENDED_INFO"}
    /\ certPc[c] \in {"query", "asking", "answered", "crl", "url", "conclude"} => vrf[c] = {}

\* Afterwards OK stands for a clean certificate.
FlagsAfter(c) ==
    certPc[c] \in {"ct", "client", "finish", "done"} /\ "OK" \in vrf[c] =>
        /\ vrf[c] \cap {"REVOKED", "ALLFAILED", "CT_MISSING"} = {}
        /\ vrf[c] \cap Tolerable \subseteq certOpt[c].allow

\* A required status was good when the status check let the handshake go on,
\* and only the transparency check may take the OK back.
RequiredSoFar(c) ==
    StatusInstalled(c) /\ certOpt[c].mode = 2 /\ ~certOpt[c].repl =>
        /\ certPc[c] = "ct" => "OK" \in vrf[c]
        /\ certPc[c] \in {"client", "finish", "done"} =>
              "OK" \in vrf[c] \/ "CT_MISSING" \in vrf[c]

\* The connection in the loop over crl_urls holds the lock of crl_cache, and
\* its position is that of a distribution point.
CrlLoopGuarded(c) ==
    /\ certPc[c] = "url" <=> crlLock = c
    /\ certPc[c] = "url" => urlIdx[c] \in DOMAIN Urls

\* An answer "revoked" is still in hand, or in the flags, where it stays.
HeardKept(c) ==
    heard[c] \cap {"staple", "answer"} # {} =>
        \/ certPc[c] \in {"answered", "conclude"} /\ ocspResult[c] = 1
        \/ certPc[c] \in {"ct", "client", "finish", "done", "failed"} /\ "REVOKED" \in vrf[c]

CertInv ==
    /\ CertTypeOK /\ TrustedSessions
    /\ \A c \in Conns : FlagsBefore(c) /\ FlagsAfter(c) /\ RequiredSoFar(c) /\ CrlLoopGuarded(c)
=============================================================================
