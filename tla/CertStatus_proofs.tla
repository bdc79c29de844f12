-------------------------- MODULE CertStatus_proofs --------------------------
(***************************************************************************)
(* Proofs about CertStatus, for any set of connections, any distribution   *)
(* points, any policies and any depth of the chain, and about OcspQuery,   *)
(* for any lists of responders.                                            *)
(***************************************************************************)
EXTENDS CertStatus, OcspQuery, WellFoundedInduction, TLAPS

\* What the flags of one connection satisfy between two callbacks.
ConnInv(c) == FlagsBefore(c) /\ FlagsAfter(c) /\ RequiredSoFar(c)

\* ocsp_verify_response gives good, revoked or unknown and nothing else.
LEMMA OcspAnswersType == OcspAnswers \subseteq -1 .. 1
<1>1. ASSUME NEW s1 \in Singles, NEW s2 \in Singles
      PROVE  OcspVerifyResponse(s1, s2) \in -1 .. 1
  <2> DEFINE Acc == [matching : BOOLEAN, revoked : -1 .. 1]
  <2>1. ASSUME NEW acc \in Acc, NEW s \in Singles
        PROVE  SingleStep(acc, s) \in Acc
    BY DEF SingleStep, Singles
  <2>2. [matching |-> FALSE, revoked |-> -1] \in Acc
    OBVIOUS
  <2> QED
    BY <2>1, <2>2 DEF OcspVerifyResponse
<1> QED
  BY <1>1 DEF OcspAnswers

\* A report is added, or nothing.
LEMMA HearsType ==
    ASSUME CertTypeOK, NEW c \in Conns, NEW from \in Reports, NEW revoked, Hears(c, from, revoked)
    PROVE  /\ heard' \in [Conns -> SUBSET Reports]
           /\ \A d \in Conns \ {c} : heard'[d] = heard[d]
           /\ heard'[c] = IF revoked THEN heard[c] \cup {from} ELSE heard[c]
BY DEF Hears, CertTypeOK

\* Initially no callback has run and nothing is cached.
LEMMA CertInitInv == CertInit => CertInv
<1> SUFFICES ASSUME CertInit PROVE CertInv
  OBVIOUS
<1> USE DEF CertInit
<1>1. CertTypeOK
  BY MaxDepthAssumption
     DEF CertTypeOK, Pcs, VrfFlags, PolicyType, DefaultPolicy, Tolerable, Crls, Reports
<1>2. TrustedSessions
  BY DEF TrustedSessions
<1>3. ASSUME NEW c \in Conns PROVE ConnInv(c) /\ CrlLoopGuarded(c)
  BY NoConnAssumption DEF ConnInv, FlagsBefore, FlagsAfter, RequiredSoFar, CrlLoopGuarded
<1> QED
  BY <1>1, <1>2, <1>3 DEF CertInv, ConnInv

\* A connection whose options, place and flags stay keeps its invariant.
LEMMA OtherConn ==
    ASSUME NEW d \in Conns, ConnInv(d),
           certOpt'[d] = certOpt[d], certPc'[d] = certPc[d], vrf'[d] = vrf[d]
    PROVE  ConnInv(d)'
BY DEF ConnInv, FlagsBefore, FlagsAfter, RequiredSoFar, StatusInstalled


\* The options, the place and the flags change at c only.
OnlyConn(c) ==
    /\ certOpt' = [certOpt EXCEPT ![c] = certOpt'[c]]
    /\ certPc' = [certPc EXCEPT ![c] = certPc'[c]]
    /\ vrf' = [vrf EXCEPT ![c] = vrf'[c]]

\* The flags of every connection after a step of c.
LEMMA ConnsKept ==
    ASSUME CertInv, NEW c \in Conns, OnlyConn(c), ConnInv(c)'
    PROVE  \A d \in Conns : ConnInv(d)'
<1> SUFFICES ASSUME NEW d \in Conns, d # c PROVE ConnInv(d)'
  OBVIOUS
<1>1. ConnInv(d)
  BY DEF CertInv, ConnInv
<1>2. certOpt'[d] = certOpt[d] /\ certPc'[d] = certPc[d] /\ vrf'[d] = vrf[d]
  BY DEF CertInv, CertTypeOK, OnlyConn
<1> QED
  BY <1>1, <1>2, OtherConn

\* The sessions and what resumed connections are trusted for, when c stores no
\* session and has not come to an end before.
LEMMA SessionsKept ==
    ASSUME CertInv, NEW c \in Conns, OnlyConn(c), sessionOf' = sessionOf,
           certPc[c] \notin {"done", "resumed"}, certPc'[c] # "resumed"
    PROVE  TrustedSessions'
BY NoConnAssumption DEF CertInv, CertTypeOK, TrustedSessions, OnlyConn

\* A step of c between two callbacks, outside the loop over crl_urls: what is
\* left to show is its types and its own flags.
LEMMA QuietStep ==
    ASSUME CertInv, NEW c \in Conns, OnlyConn(c), CertTypeOK', ConnInv(c)',
           certPc[c] \notin {"done", "resumed", "url"},
           certPc'[c] \notin {"resumed", "url"},
           UNCHANGED <<sessionOf, crlLock, urlIdx>>
    PROVE  CertInv'
<1>1. TrustedSessions'
  BY SessionsKept
<1>2. \A d \in Conns : ConnInv(d)'
  BY ConnsKept
<1>3. \A d \in Conns : CrlLoopGuarded(d)'
  BY DEF CertInv, CertTypeOK, CrlLoopGuarded, OnlyConn
<1> QED
  BY <1>1, <1>2, <1>3 DEF CertInv, ConnInv

\* init_client: the options are those of the connection from here on.
LEMMA InitClientInv ==
    ASSUME CertInv, NEW c \in Conns, NEW p \in Policies, NEW n \in 0 .. MaxDepth,
           InitClient(c, p, n)
    PROVE  CertInv'
<1> USE DEF InitClient
<1>1. CertTypeOK'
  <2>1. p \in PolicyType
    BY PoliciesAssumption
  <2>2. Callbacks(p) \in PolicyType
    BY <2>1 DEF Callbacks, PolicyType
  <2>3. offered' \in [Conns -> BOOLEAN]
    BY <2>1 DEF CertInv, CertTypeOK, LoadSession, PolicyType
  <2> QED
    BY <2>2, <2>3 DEF CertInv, CertTypeOK, Pcs
<1>2. OnlyConn(c) /\ certPc'[c] = "hello"
  BY DEF OnlyConn, CertInv, CertTypeOK
<1>3. ConnInv(c)'
  BY <1>2 DEF CertInv, ConnInv, FlagsBefore, FlagsAfter, RequiredSoFar
<1> QED
  BY <1>1, <1>2, <1>3, QuietStep

\* ssl_client_vrfy_callback adds the problem it met, and nothing else.
LEMMA VerifyCallbackInv ==
    ASSUME CertInv, NEW c \in Conns, NEW err \in Errors \cup {"V_OK"}, NEW sha1 \in BOOLEAN,
           VerifyCallback(c, err, sha1)
    PROVE  CertInv'
<1> USE DEF VerifyCallback
<1>0. {err} \ {"V_OK"} \subseteq Tolerable
  BY ErrorsAssumption
<1>1. CertTypeOK'
  <2>1. known' \in [Conns -> SUBSET {"cert", "issuer"}]
    BY DEF CertInv, CertTypeOK
  <2>2. vrf' \in [Conns -> SUBSET VrfFlags]
    BY <1>0 DEF CertInv, CertTypeOK, VrfFlags
  <2>3. chainDepth' \in [Conns -> 0 .. MaxDepth]
    BY MaxDepthAssumption DEF CertInv, CertTypeOK
  <2>4. certPc' \in [Conns -> Pcs]
    BY DEF CertInv, CertTypeOK, Pcs
  <2> QED
    BY <2>1, <2>2, <2>3, <2>4 DEF CertInv, CertTypeOK
<1>2. OnlyConn(c)
  BY DEF OnlyConn, CertInv, CertTypeOK
<1>3. certPc'[c] \in {"failed", "chain", "status", "ct"}
  BY DEF CertInv, CertTypeOK
<1>3a. certPc'[c] = "ct" => ~StatusInstalled(c)'
  BY DEF CertInv, CertTypeOK, StatusInstalled
<1>4. vrf'[c] \subseteq Tolerable \cup {"NOTTESTED", "EXTENDED_INFO"}
  <2>1. vrf[c] \subseteq Tolerable \cup {"NOTTESTED", "EXTENDED_INFO"}
    BY DEF CertInv, FlagsBefore
  <2>2. vrf'[c] = vrf[c] \cup ({err} \ {"V_OK"}) \cup
                  IF chainDepth[c] = 1 /\ sha1 THEN {"EXTENDED_INFO"} ELSE {}
    BY DEF CertInv, CertTypeOK
  <2> QED
    BY <1>0, <2>1, <2>2
<1>5. ConnInv(c)'
  <2>1. "OK" \notin vrf'[c]
    BY <1>4 DEF Tolerable
  <2> QED
    BY <1>3, <1>3a, <1>4, <2>1 DEF ConnInv, FlagsBefore, FlagsAfter, RequiredSoFar
<1> QED
  BY <1>1, <1>2, <1>3, <1>5, QuietStep

\* Return: the callback lets the handshake go on or ends it.
LEMMA ReturnPc ==
    ASSUME CertTypeOK, NEW c \in Conns, NEW ok \in BOOLEAN, Return(c, ok)
    PROVE  /\ certPc' = [certPc EXCEPT ![c] = certPc'[c]]
           /\ certPc' \in [Conns -> Pcs]
           /\ certPc'[c] \in {"ct", "failed"}
           /\ certPc'[c] = "ct" <=> ok
BY DEF CertTypeOK, Return, Pcs

\* The flags after a status check that let the handshake go on.
LEMMA AfterStatus ==
    ASSUME NEW c \in Conns, certPc'[c] \in {"ct", "failed"},
           "OK" \in vrf'[c] =>
               /\ vrf'[c] \cap {"REVOKED", "ALLFAILED", "CT_MISSING"} = {}
               /\ vrf'[c] \cap Tolerable \subseteq certOpt'[c].allow,
           certPc'[c] = "ct" => "OK" \in vrf'[c] \/ certOpt'[c].repl \/ certOpt'[c].mode # 2
    PROVE  ConnInv(c)'
BY DEF ConnInv, FlagsBefore, FlagsAfter, RequiredSoFar

\* status_resp_callback on problems found before: OK if the options allow them.
LEMMA StatusKnownBadInv ==
    ASSUME CertInv, NEW c \in Conns, StatusKnownBad(c)
    PROVE  CertInv'
<1> USE DEF StatusKnownBad
<1> DEFINE v == vrf[c] \ {"NOTTESTED"}
<1>1. vrf[c] \subseteq Tolerable \cup {"NOTTESTED", "EXTENDED_INFO"}
  BY DEF CertInv, FlagsBefore
<1>2. CASE OptAllowed(c, v)
  <2>1. vrf' = [vrf EXCEPT ![c] = v \cup {"OK"}] /\ Return(c, TRUE)
    BY <1>2
  <2>2. certPc' \in [Conns -> Pcs] /\ certPc'[c] = "ct"
    BY <2>1, ReturnPc DEF CertInv
  <2>3. OnlyConn(c) /\ vrf'[c] = v \cup {"OK"} /\ vrf' \in [Conns -> SUBSET VrfFlags]
    BY <2>1, ReturnPc DEF OnlyConn, CertInv, CertTypeOK, VrfFlags
  <2>4. CertTypeOK'
    BY <2>2, <2>3 DEF CertInv, CertTypeOK
  <2>5. v \cap Tolerable \subseteq certOpt[c].allow
    BY <1>2 DEF OptAllowed
  <2>6. vrf'[c] \cap Tolerable \subseteq certOpt'[c].allow
    BY <2>3, <2>5 DEF Tolerable
  <2>7. vrf'[c] \cap {"REVOKED", "ALLFAILED", "CT_MISSING"} = {}
    BY <1>1, <2>3 DEF Tolerable
  <2>8. ConnInv(c)'
    BY <2>2, <2>3, <2>6, <2>7, AfterStatus
  <2> QED
    BY <2>2, <2>3, <2>4, <2>8, QuietStep
<1>3. CASE ~OptAllowed(c, v)
  <2>1. /\ vrf' = [vrf EXCEPT ![c] = (v \ {"OK"}) \cup {"ALLFAILED"}]
        /\ Return(c, certOpt[c].repl)
    BY <1>3
  <2>2. certOpt[c].repl \in BOOLEAN
    BY DEF CertInv, CertTypeOK, PolicyType
  <2>3. /\ certPc' \in [Conns -> Pcs] /\ certPc'[c] \in {"ct", "failed"}
        /\ certPc'[c] = "ct" <=> certOpt[c].repl
        /\ certPc' = [certPc EXCEPT ![c] = certPc'[c]]
    BY <2>1, <2>2, ReturnPc DEF CertInv
  <2>4. OnlyConn(c) /\ "OK" \notin vrf'[c] /\ vrf' \in [Conns -> SUBSET VrfFlags]
    BY <2>1, <2>3 DEF OnlyConn, CertInv, CertTypeOK, VrfFlags
  <2>5. CertTypeOK'
    BY <2>3, <2>4 DEF CertInv, CertTypeOK
  <2>6. ConnInv(c)'
    BY <2>3, <2>4, AfterStatus
  <2> QED
    BY <2>3, <2>4, <2>5, <2>6, QuietStep
<1> QED
  BY <1>2, <1>3

\* certificate_status_oob_check up to the query, started without any flag: a
\* required status is queried, or the handshake ends.
LEMMA OobCheckInv ==
    ASSUME CertInv, NEW c \in Conns, NEW enforce \in BOOLEAN, certPc[c] = "status",
           OobCheck(c, {}, enforce, IF certOpt[c].mode >= 2 THEN 0 ELSE 1),
           UNCHANGED <<chainDepth, known, ocspResult, urlIdx, crlStruct, offered, spoof,
                       heard, verifyCache, crlCache, crlLock, sessionOf>>
    PROVE  CertInv'
<1> USE DEF OobCheck
<1> DEFINE go == (IF certOpt[c].mode >= 2 THEN 0 ELSE 1) = 1
<1>1. /\ vrf' \in [Conns -> SUBSET VrfFlags] /\ vrf' = [vrf EXCEPT ![c] = vrf'[c]]
      /\ vrf'[c] = {}
  BY DEF CertInv, CertTypeOK
<1>2. /\ certOpt' \in [Conns -> PolicyType] /\ certOpt' = [certOpt EXCEPT ![c] = certOpt'[c]]
      /\ certOpt'[c].mode = certOpt[c].mode /\ certOpt[c].mode \in 0 .. 2
  <2>1. certOpt \in [Conns -> PolicyType] /\ certOpt[c] \in PolicyType
    BY DEF CertInv, CertTypeOK
  <2>2. certOpt' = [certOpt EXCEPT ![c] = [certOpt[c] EXCEPT !.enforce = enforce]]
    BY <2>1
  <2>3. [certOpt[c] EXCEPT !.enforce = enforce] \in PolicyType
    BY <2>1 DEF PolicyType
  <2>4. certOpt'[c] = [certOpt[c] EXCEPT !.enforce = enforce]
    BY <2>1, <2>2
  <2> QED
    BY <2>1, <2>2, <2>3, <2>4 DEF PolicyType
<1>3. CASE enforce
  <2>1. certPc' = [certPc EXCEPT ![c] = "query"]
    BY <1>3
  <2>2. /\ certPc' \in [Conns -> Pcs] /\ certPc' = [certPc EXCEPT ![c] = certPc'[c]]
        /\ certPc'[c] = "query"
    BY <2>1 DEF CertInv, CertTypeOK, Pcs
  <2>3. CertTypeOK'
    BY <1>1, <1>2, <2>2 DEF CertInv, CertTypeOK
  <2>4. ConnInv(c)'
    BY <1>1, <2>2 DEF ConnInv, FlagsBefore, FlagsAfter, RequiredSoFar
  <2> QED
    BY <1>1, <1>2, <2>2, <2>3, <2>4, QuietStep DEF OnlyConn
<1>4. CASE ~enforce
  <2>1. Return(c, go)
    BY <1>4
  <2>2. /\ certPc' \in [Conns -> Pcs] /\ certPc' = [certPc EXCEPT ![c] = certPc'[c]]
        /\ certPc'[c] \in {"ct", "failed"}
        /\ certPc'[c] = "ct" <=> go
    BY <2>1, ReturnPc DEF CertInv
  <2>3. certPc'[c] = "ct" => certOpt'[c].mode # 2
    BY <1>2, <2>2
  <2>4. CertTypeOK'
    BY <1>1, <1>2, <2>2 DEF CertInv, CertTypeOK
  <2>5. ConnInv(c)'
    BY <1>1, <2>2, <2>3, AfterStatus
  <2> QED
    BY <1>1, <1>2, <2>2, <2>4, <2>5, QuietStep DEF OnlyConn
<1> QED
  BY <1>3, <1>4

\* The revocation check of a chain without problems starts from no flag.
LEMMA NoProblemsNoFlags ==
    ASSUME CertInv, NEW c \in Conns, certPc[c] = "status", Problems(vrf[c]) = {}
    PROVE  vrf[c] \ {"NOTTESTED"} = {}
<1>1. vrf[c] \subseteq Tolerable \cup {"NOTTESTED", "EXTENDED_INFO"}
  BY DEF CertInv, FlagsBefore
<1> QED
  BY <1>1 DEF Problems, Tolerable

\* status_resp_callback without an issuer.
LEMMA StatusNoIssuerInv ==
    ASSUME CertInv, NEW c \in Conns, StatusNoIssuer(c)
    PROVE  CertInv'
<1>1. vrf[c] \ {"NOTTESTED"} = {}
  BY NoProblemsNoFlags DEF StatusNoIssuer
<1>2. OobCheck(c, {}, TRUE, IF certOpt[c].mode >= 2 THEN 0 ELSE 1)
  BY <1>1 DEF StatusNoIssuer
<1> QED
  BY <1>2, OobCheckInv DEF StatusNoIssuer

\* status_resp_callback with a stapled answer, or with none.
LEMMA StatusStapledInv ==
    ASSUME CertInv, NEW c \in Conns, NEW s \in Staples, StatusStapled(c, s)
    PROVE  CertInv'
<1> USE DEF StatusStapled
<1>1. vrf[c] \ {"NOTTESTED"} = {}
  BY NoProblemsNoFlags
<1>2. certOpt[c].repl \in BOOLEAN /\ certOpt[c].enforce \in BOOLEAN
  BY DEF CertInv, CertTypeOK, PolicyType
<1>2a. heard' \in [Conns -> SUBSET Reports]
  BY HearsType DEF CertInv, Reports
<1>3. CASE s = "good"
  <2>1. vrf' = [vrf EXCEPT ![c] = {"OK"}] /\ Return(c, TRUE) /\ certOpt' = certOpt
    BY <1>1, <1>3
  <2>2. /\ certPc' \in [Conns -> Pcs] /\ certPc'[c] = "ct"
        /\ certPc' = [certPc EXCEPT ![c] = certPc'[c]]
    BY <2>1, ReturnPc DEF CertInv
  <2>3. OnlyConn(c) /\ vrf'[c] = {"OK"} /\ vrf' \in [Conns -> SUBSET VrfFlags]
    BY <2>1, <2>2 DEF OnlyConn, CertInv, CertTypeOK, VrfFlags
  <2>4. CertTypeOK'
    BY <1>2a, <2>1, <2>2, <2>3 DEF CertInv, CertTypeOK
  <2>5. ConnInv(c)'
    <3>1. vrf'[c] \cap {"REVOKED", "ALLFAILED", "CT_MISSING"} = {} /\ vrf'[c] \cap Tolerable = {}
      BY <2>3 DEF Tolerable
    <3> QED
      BY <2>2, <2>3, <3>1, AfterStatus
  <2> QED
    BY <2>2, <2>3, <2>4, <2>5, QuietStep
<1>4. CASE s = "revoked"
  <2>1. /\ vrf' = [vrf EXCEPT ![c] = {"REVOKED"}] /\ Return(c, certOpt[c].repl)
        /\ certOpt' = certOpt
    BY <1>1, <1>4
  <2>2. /\ certPc' \in [Conns -> Pcs] /\ certPc'[c] \in {"ct", "failed"}
        /\ certPc'[c] = "ct" <=> certOpt[c].repl
        /\ certPc' = [certPc EXCEPT ![c] = certPc'[c]]
    BY <1>2, <2>1, ReturnPc DEF CertInv
  <2>3. OnlyConn(c) /\ vrf'[c] = {"REVOKED"} /\ vrf' \in [Conns -> SUBSET VrfFlags]
    BY <2>1, <2>2 DEF OnlyConn, CertInv, CertTypeOK, VrfFlags
  <2>4. CertTypeOK'
    BY <1>2a, <2>1, <2>2, <2>3 DEF CertInv, CertTypeOK
  <2>5. ConnInv(c)'
    BY <2>1, <2>2, <2>3, AfterStatus
  <2> QED
    BY <2>2, <2>3, <2>4, <2>5, QuietStep
<1>5. CASE s \notin {"good", "revoked"}
  <2> DEFINE e == certOpt[c].enforce \/ Enforces(s)
  <2>1. OobCheck(c, {}, e, IF certOpt[c].mode >= 2 THEN 0 ELSE 1)
    BY <1>1, <1>5
  <2>2. e \in BOOLEAN
    BY <1>2 DEF Enforces
  <2>3. heard' = heard
    BY <1>5 DEF Hears, CertInv, CertTypeOK
  <2> HIDE DEF e
  <2> QED
    BY <2>1, <2>2, <2>3, OobCheckInv
<1> QED
  BY <1>3, <1>4, <1>5

\* A step inside certificate_status_ocsp_check: it writes no flag.
LEMMA QueryStep ==
    ASSUME CertInv, NEW c \in Conns,
           certPc[c] \in {"query", "asking", "answered", "crl"},
           NEW to \in {"asking", "answered", "crl", "conclude"},
           certPc' = [certPc EXCEPT ![c] = to],
           ocspResult' \in [Conns -> -1 .. 1],
           verifyCache' = {} \/ \E r \in -1 .. 1 : verifyCache' = {r},
           UNCHANGED <<certOpt, vrf, chainDepth, known, urlIdx, crlStruct, offered, spoof,
                       crlCache, crlLock, sessionOf>>,
           heard' \in [Conns -> SUBSET Reports]
    PROVE  CertInv'
<1>1. OnlyConn(c) /\ certPc'[c] = to /\ certPc' \in [Conns -> Pcs]
  BY DEF OnlyConn, CertInv, CertTypeOK, Pcs
<1>2. CertTypeOK'
  BY <1>1 DEF CertInv, CertTypeOK
<1>3. vrf'[c] = {}
  BY DEF CertInv, FlagsBefore
<1>4. ConnInv(c)'
  BY <1>1, <1>3 DEF ConnInv, FlagsBefore, FlagsAfter, RequiredSoFar
<1> QED
  BY <1>1, <1>2, <1>4, QuietStep

\* The lookup in verify_cache.
LEMMA QueryLookupInv ==
    ASSUME CertInv, NEW c \in Conns, QueryLookup(c)
    PROVE  CertInv'
<1> USE DEF QueryLookup
<1>1. verifyCache = {} \/ \E r \in -1 .. 1 : verifyCache = {r}
  BY DEF CertInv, CertTypeOK
<1>2. ocspResult \in [Conns -> -1 .. 1]
  BY DEF CertInv, CertTypeOK
<1>2a. heard \in [Conns -> SUBSET Reports]
  BY DEF CertInv, CertTypeOK
<1>3. CASE known[c] # {"cert", "issuer"}
  BY <1>1, <1>2, <1>2a, <1>3, QueryStep
<1>4. CASE known[c] = {"cert", "issuer"} /\ verifyCache # {}
  <2>1. PICK r \in verifyCache :
          /\ ocspResult' = [ocspResult EXCEPT ![c] = r]
          /\ Hears(c, "answer", r = 1)
          /\ certPc' = [certPc EXCEPT ![c] = IF r < 0 THEN "crl" ELSE "conclude"]
    BY <1>4
  <2>2. r \in -1 .. 1
    BY <1>1
  <2>3. ocspResult' \in [Conns -> -1 .. 1]
    BY <1>2, <2>1, <2>2
  <2>4. heard' \in [Conns -> SUBSET Reports]
    BY <2>1, HearsType DEF CertInv, Reports
  <2> QED
    BY <1>1, <2>1, <2>3, <2>4, QueryStep
<1>5. CASE known[c] = {"cert", "issuer"} /\ verifyCache = {}
  BY <1>1, <1>2, <1>2a, <1>5, QueryStep
<1> QED
  BY <1>3, <1>4, <1>5

\* The answer of the responders.
LEMMA OcspAnswerInv ==
    ASSUME CertInv, NEW c \in Conns, NEW r \in OcspAnswers, OcspAnswer(c, r)
    PROVE  CertInv'
<1>1. r \in -1 .. 1
  BY OcspAnswersType
<1>2. ocspResult' \in [Conns -> -1 .. 1]
  BY <1>1 DEF OcspAnswer, CertInv, CertTypeOK
<1>3. verifyCache' = {} \/ \E q \in -1 .. 1 : verifyCache' = {q}
  BY DEF OcspAnswer, CertInv, CertTypeOK
<1>4. heard' \in [Conns -> SUBSET Reports]
  BY HearsType DEF OcspAnswer, CertInv, Reports
<1> QED
  BY <1>2, <1>3, <1>4, QueryStep DEF OcspAnswer

\* The answer is stored.
LEMMA VerifyCacheSetInv ==
    ASSUME CertInv, NEW c \in Conns, VerifyCacheSet(c)
    PROVE  CertInv'
<1>1. /\ ocspResult' \in [Conns -> -1 .. 1] /\ ocspResult[c] \in -1 .. 1
      /\ heard' \in [Conns -> SUBSET Reports]
  BY DEF VerifyCacheSet, CertInv, CertTypeOK
<1>2. verifyCache' = {} \/ \E q \in -1 .. 1 : verifyCache' = {q}
  BY <1>1 DEF VerifyCacheSet
<1> QED
  BY <1>1, <1>2, QueryStep DEF VerifyCacheSet

\* The lock of crl_cache is taken for the loop over crl_urls.
LEMMA CrlLoopEnterInv ==
    ASSUME CertInv, NEW c \in Conns, CrlLoopEnter(c)
    PROVE  CertInv'
<1> USE DEF CrlLoopEnter
<1>1. /\ certPc' \in [Conns -> Pcs] /\ certPc'[c] \in {"conclude", "url"}
      /\ OnlyConn(c)
  BY DEF OnlyConn, CertInv, CertTypeOK, Pcs
<1>2. CertTypeOK'
  BY <1>1 DEF CertInv, CertTypeOK
<1>3. vrf'[c] = {}
  BY DEF CertInv, FlagsBefore
<1>4. ConnInv(c)'
  BY <1>1, <1>3 DEF ConnInv, FlagsBefore, FlagsAfter, RequiredSoFar
<1>5. TrustedSessions'
  BY <1>1, SessionsKept
<1>6. \A d \in Conns : ConnInv(d)'
  BY <1>1, <1>4, ConnsKept
<1>7. ASSUME NEW d \in Conns PROVE CrlLoopGuarded(d)'
  <2>1. certPc[d] # "url"
    BY NoConnAssumption DEF CertInv, CrlLoopGuarded
  <2>2. CASE Len(Urls) = 0
    <3>1. certPc'[d] # "url" /\ crlLock' # d
      BY <2>1, <2>2, NoConnAssumption DEF CertInv, CertTypeOK
    <3> QED
      BY <3>1 DEF CrlLoopGuarded
  <2>3. CASE Len(Urls) # 0
    <3>1. (certPc'[d] = "url" <=> d = c) /\ crlLock' = c
      BY <2>1, <2>3 DEF CertInv, CertTypeOK
    <3>2. urlIdx'[c] = 1 /\ 1 \in DOMAIN Urls
      BY <2>3, UrlsAssumption DEF CertInv, CertTypeOK
    <3> QED
      BY <3>1, <3>2 DEF CrlLoopGuarded
  <2> QED
    BY <2>2, <2>3
<1> QED
  BY <1>2, <1>5, <1>6, <1>7 DEF CertInv, ConnInv

\* One turn of the loop, with the lock; it is given back with the last turn.
LEMMA CrlUrlInv ==
    ASSUME CertInv, NEW c \in Conns, NEW d \in Downloads, CrlUrl(c, d)
    PROVE  CertInv'
<1> DEFINE i == urlIdx[c]
           cached == crlCache[i] # Uncached
           crl == IF cached \/ d = "failed" THEN crlStruct[c]
                  ELSE IF d = "garbage" THEN NoCrl ELSE d
           r == CrlVerdict(crl)
           last == r >= 0 \/ i = Len(Urls)
<1>0. /\ certPc[c] = "url"
      /\ crlStruct' = [crlStruct EXCEPT ![c] = crl]
      /\ crlCache' = [crlCache EXCEPT ![i] =
             CASE cached \/ d = "garbage" -> crlCache[i] [] d = "failed" -> NoCrl [] OTHER -> d]
      /\ Hears(c, "listed", crl = "listed")
      /\ ocspResult' = [ocspResult EXCEPT ![c] = r]
      /\ urlIdx' = [urlIdx EXCEPT ![c] = IF last THEN 1 ELSE i + 1]
      /\ certPc' = [certPc EXCEPT ![c] = IF last THEN "conclude" ELSE "url"]
      /\ crlLock' = IF last THEN NoConn ELSE c
      /\ UNCHANGED <<certOpt, vrf, chainDepth, known, offered, spoof, verifyCache, sessionOf>>
  BY DEF CrlUrl
<1>1. i \in DOMAIN Urls /\ crlLock = c
  BY <1>0 DEF CertInv, CrlLoopGuarded
<1>2. crlCache[i] \in Crls \cup {NoCrl, Uncached} /\ crlStruct[c] \in Crls \cup {NoCrl}
  BY <1>1 DEF CertInv, CertTypeOK
<1>3. crl \in Crls \cup {NoCrl} /\ r \in -1 .. 0
  BY <1>2 DEF Downloads, CrlVerdict, CrlIsRevokedBy
<1>4. ~last => i + 1 \in DOMAIN Urls
  BY <1>1, UrlsAssumption
<1> HIDE DEF r, last, crl
<1>5. /\ certPc' \in [Conns -> Pcs] /\ OnlyConn(c)
      /\ certPc'[c] = IF last THEN "conclude" ELSE "url"
  BY <1>0 DEF OnlyConn, CertInv, CertTypeOK, Pcs
<1>6. CertTypeOK'
  <2>1. crlStruct' \in [Conns -> Crls \cup {NoCrl}] /\ heard' \in [Conns -> SUBSET Reports]
    BY <1>0, <1>3, HearsType DEF CertInv, CertTypeOK, Reports
  <2>2. crlCache' \in [DOMAIN Urls -> Crls \cup {NoCrl, Uncached}]
    BY <1>0, <1>1, <1>2 DEF CertInv, CertTypeOK, Downloads
  <2>3. ocspResult' \in [Conns -> -1 .. 1]
    BY <1>0, <1>3 DEF CertInv, CertTypeOK
  <2>4. urlIdx' \in [Conns -> DOMAIN Urls \cup {1}]
    BY <1>0, <1>4 DEF CertInv, CertTypeOK
  <2> QED
    BY <1>0, <1>5, <2>1, <2>2, <2>3, <2>4 DEF CertInv, CertTypeOK
<1>7. ConnInv(c)'
  <2>1. vrf'[c] = {}
    BY <1>0 DEF CertInv, FlagsBefore
  <2> QED
    BY <1>5, <2>1 DEF ConnInv, FlagsBefore, FlagsAfter, RequiredSoFar
<1>8. TrustedSessions'
  BY <1>0, <1>5, SessionsKept
<1>9. \A e \in Conns : ConnInv(e)'
  BY <1>5, <1>7, ConnsKept
<1>10. ASSUME NEW e \in Conns PROVE CrlLoopGuarded(e)'
  <2>1. e # c => certPc'[e] # "url"
    BY <1>0, <1>1 DEF CertInv, CertTypeOK, CrlLoopGuarded
  <2>2. CASE last
    BY <1>0, <1>5, <2>1, <2>2, NoConnAssumption DEF CrlLoopGuarded
  <2>3. CASE ~last
    <3>1. urlIdx'[c] = i + 1
      BY <1>0, <2>3 DEF CertInv, CertTypeOK
    <3> QED
      BY <1>0, <1>4, <1>5, <2>1, <2>3, <3>1 DEF CrlLoopGuarded
  <2> QED
    BY <2>2, <2>3
<1> QED
  BY <1>6, <1>8, <1>9, <1>10 DEF CertInv, ConnInv

\* The end of the check: OK for a good certificate only.
LEMMA ConcludeInv ==
    ASSUME CertInv, NEW c \in Conns, Conclude(c)
    PROVE  CertInv'
<1> USE DEF Conclude
<1> DEFINE r == ocspResult[c]
           ok == OobResult(c, r)
           v == CheckFlags(vrf[c], r)
<1>1. vrf[c] = {} /\ r \in -1 .. 1 /\ certOpt[c].repl \in BOOLEAN
  BY DEF CertInv, CertTypeOK, FlagsBefore, PolicyType
<1>2. ok \in BOOLEAN /\ (ok <=> r = 0 \/ certOpt[c].repl)
  BY <1>1 DEF OobResult
<1>3. /\ certPc' \in [Conns -> Pcs] /\ certPc' = [certPc EXCEPT ![c] = certPc'[c]]
      /\ certPc'[c] \in {"ct", "failed"}
      /\ certPc'[c] = "ct" <=> ok
  <2> HIDE DEF ok
  <2> Return(c, ok)
    BY DEF ok
  <2> QED
    BY <1>2, ReturnPc DEF CertInv
<1>4. v \subseteq {"OK", "REVOKED", "DEFERRED"} /\ (r = 0 => v = {"OK"}) /\ ("OK" \in v => r = 0)
  BY <1>1 DEF CheckFlags
<1>5. /\ vrf' = [vrf EXCEPT ![c] = IF r < 0 THEN v \cup {"ALLFAILED"} ELSE v]
      /\ vrf' = [vrf EXCEPT ![c] = vrf'[c]]
      /\ vrf'[c] = IF r < 0 THEN v \cup {"ALLFAILED"} ELSE v
  BY DEF CertInv, CertTypeOK
<1> HIDE DEF v
<1>6. CertTypeOK'
  <2>1. vrf' \in [Conns -> SUBSET VrfFlags]
    BY <1>4, <1>5 DEF CertInv, CertTypeOK, VrfFlags
  <2> QED
    BY <1>3, <2>1 DEF CertInv, CertTypeOK
<1>7. "OK" \in vrf'[c] => r = 0
  BY <1>1, <1>4, <1>5
<1>8. r = 0 => vrf'[c] = {"OK"}
  BY <1>1, <1>4, <1>5
<1>9. ConnInv(c)'
  <2>1. {"OK"} \cap {"REVOKED", "ALLFAILED", "CT_MISSING"} = {} /\ {"OK"} \cap Tolerable = {}
    BY DEF Tolerable
  <2>2. certPc'[c] = "ct" => "OK" \in vrf'[c] \/ certOpt'[c].repl
    BY <1>2, <1>3, <1>8
  <2> QED
    BY <1>3, <1>7, <1>8, <2>1, <2>2, AfterStatus
<1>10. OnlyConn(c)
  BY <1>3, <1>5 DEF OnlyConn, CertInv, CertTypeOK
<1> QED
  BY <1>3, <1>6, <1>9, <1>10, QuietStep

\* ct_verify_callback takes OK back with CT_MISSING.
LEMMA CtCallbackInv ==
    ASSUME CertInv, NEW c \in Conns, NEW s \in ScTs, CtCallback(c, s)
    PROVE  CertInv'
<1> USE DEF CtCallback
<1> DEFINE v == vrf[c] \ {"OK"}
           w == CASE s = "few" -> v \cup {"CT_MISSING"}
                  [] s = "invalid" -> v \cup {"CT_FAILED"}
                  [] s = "unverified" -> v \cup {"CT_MISSING", "CT_FAILED"}
                  [] s = "partly" -> vrf[c] \cup {"CT_FAILED"}
                  [] OTHER -> vrf[c]
<1>1. vrf' = [vrf EXCEPT ![c] = w]
  OBVIOUS
<1>2. w \subseteq vrf[c] \cup {"CT_MISSING", "CT_FAILED"}
  OBVIOUS
<1>3. "OK" \in w => "CT_MISSING" \notin w \/ "CT_MISSING" \in vrf[c]
  OBVIOUS
<1>4. "OK" \in vrf[c] => "OK" \in w \/ "CT_MISSING" \in w \/ s = "invalid"
  OBVIOUS
<1>5. "OK" \in w => "OK" \in vrf[c]
  OBVIOUS
<1> HIDE DEF w
<1>6. /\ certPc' \in [Conns -> Pcs] /\ certPc' = [certPc EXCEPT ![c] = certPc'[c]]
      /\ certPc'[c] = IF s \in {"few", "invalid"} /\ ~certOpt[c].repl THEN "failed" ELSE "client"
  BY DEF CertInv, CertTypeOK, Pcs
<1>7. vrf' \in [Conns -> SUBSET VrfFlags] /\ vrf' = [vrf EXCEPT ![c] = vrf'[c]] /\ vrf'[c] = w
  BY <1>1, <1>2 DEF CertInv, CertTypeOK, VrfFlags
<1>8. CertTypeOK'
  BY <1>6, <1>7 DEF CertInv, CertTypeOK
<1>9. FlagsAfter(c)'
  <2> SUFFICES ASSUME "OK" \in vrf'[c]
               PROVE  /\ vrf'[c] \cap {"REVOKED", "ALLFAILED", "CT_MISSING"} = {}
                      /\ vrf'[c] \cap Tolerable \subseteq certOpt'[c].allow
    BY DEF FlagsAfter
  <2>1. "OK" \in vrf[c]
    BY <1>5, <1>7
  <2>2. /\ vrf[c] \cap {"REVOKED", "ALLFAILED", "CT_MISSING"} = {}
        /\ vrf[c] \cap Tolerable \subseteq certOpt[c].allow
    BY <2>1 DEF CertInv, FlagsAfter
  <2>3. vrf'[c] \cap Tolerable \subseteq vrf[c] \cap Tolerable
    BY <1>2, <1>7 DEF Tolerable
  <2>4. "CT_MISSING" \notin vrf'[c]
    BY <1>3, <1>7, <2>2
  <2>5. vrf'[c] \cap {"REVOKED", "ALLFAILED", "CT_MISSING"} = {}
    BY <1>2, <1>7, <2>2, <2>4
  <2> QED
    BY <2>2, <2>3, <2>5
<1>10. RequiredSoFar(c)'
  <2> SUFFICES ASSUME StatusInstalled(c), certOpt[c].mode = 2, ~certOpt[c].repl,
                      certPc'[c] = "client"
               PROVE  "OK" \in vrf'[c] \/ "CT_MISSING" \in vrf'[c]
    BY <1>6 DEF RequiredSoFar, StatusInstalled
  <2>1. "OK" \in vrf[c]
    BY DEF CertInv, RequiredSoFar
  <2>2. s # "invalid"
    BY <1>6
  <2> QED
    BY <1>4, <1>7, <2>1, <2>2
<1>11. ConnInv(c)'
  BY <1>6, <1>9, <1>10 DEF ConnInv, FlagsBefore
<1>12. OnlyConn(c)
  BY <1>6, <1>7 DEF OnlyConn, CertInv, CertTypeOK
<1> QED
  BY <1>6, <1>8, <1>11, <1>12, QuietStep

\* ssl_client_cert_callback adds CLIENT_CERT_RQ.
LEMMA ClientCertCallbackInv ==
    ASSUME CertInv, NEW c \in Conns, NEW asked \in BOOLEAN, ClientCertCallback(c, asked)
    PROVE  CertInv'
<1> USE DEF ClientCertCallback
<1>1. /\ vrf' \in [Conns -> SUBSET VrfFlags] /\ vrf' = [vrf EXCEPT ![c] = vrf'[c]]
      /\ vrf'[c] = vrf[c] \/ vrf'[c] = vrf[c] \cup {"CLIENT_CERT_RQ"}
  BY DEF CertInv, CertTypeOK, VrfFlags
<1>2. /\ certPc' \in [Conns -> Pcs] /\ certPc' = [certPc EXCEPT ![c] = certPc'[c]]
      /\ certPc'[c] \in {"failed", "finish"}
  BY DEF CertInv, CertTypeOK, Pcs
<1>3. CertTypeOK'
  BY <1>1, <1>2 DEF CertInv, CertTypeOK
<1>4. vrf'[c] \cap Tolerable = vrf[c] \cap Tolerable
  BY <1>1 DEF Tolerable
<1>5. ConnInv(c)'
  BY <1>1, <1>2, <1>4
     DEF CertInv, ConnInv, FlagsBefore, FlagsAfter, RequiredSoFar, StatusInstalled
<1>6. OnlyConn(c)
  BY <1>1, <1>2 DEF OnlyConn, CertInv, CertTypeOK
<1> QED
  BY <1>2, <1>3, <1>5, <1>6, QuietStep

\* check_cert and store_session_if_needed: the stored session is crystal OK.
LEMMA FinishInv ==
    ASSUME CertInv, NEW c \in Conns, NEW match \in BOOLEAN, NEW resumable \in BOOLEAN,
           Finish(c, match, resumable)
    PROVE  CertInv'
<1> USE DEF Finish
<1> DEFINE v == HostnameFlags(vrf[c], match)
<1>1. v = vrf[c] \/ v = vrf[c] \cup {"HOSTNAME_FAILED"}
  BY DEF HostnameFlags
<1>2. /\ vrf' = [vrf EXCEPT ![c] = v]
      /\ spoof' = [spoof EXCEPT ![c] = SpoofKind(c, vrf[c], match)]
      /\ sessionOf' = sessionOf \/ (sessionOf' = c /\ v = {"OK"})
  BY DEF Storable
<1> HIDE DEF v
<1>3. /\ vrf' \in [Conns -> SUBSET VrfFlags] /\ vrf' = [vrf EXCEPT ![c] = vrf'[c]]
      /\ vrf'[c] = v
  BY <1>1, <1>2 DEF CertInv, CertTypeOK, VrfFlags
<1>4. /\ certPc' \in [Conns -> Pcs] /\ certPc' = [certPc EXCEPT ![c] = certPc'[c]]
      /\ certPc'[c] = "done"
  BY DEF CertInv, CertTypeOK, Pcs
<1>5. CertTypeOK'
  <2>1. spoof' \in [Conns -> {"none", "copy", "replacement", "selfSigned"}]
    BY <1>2 DEF CertInv, CertTypeOK, SpoofKind
  <2> QED
    BY <1>2, <1>3, <1>4, <2>1 DEF CertInv, CertTypeOK
<1>6. vrf'[c] \cap Tolerable = vrf[c] \cap Tolerable
  BY <1>1, <1>3 DEF Tolerable
<1>7. ConnInv(c)'
  BY <1>1, <1>3, <1>4, <1>6
     DEF CertInv, ConnInv, FlagsBefore, FlagsAfter, RequiredSoFar, StatusInstalled
<1>8. OnlyConn(c)
  BY <1>3, <1>4 DEF OnlyConn, CertInv, CertTypeOK
<1>9. \A d \in Conns : ConnInv(d)'
  BY <1>7, <1>8, ConnsKept
<1>10. TrustedSessions'
  <2>1. CASE sessionOf' = sessionOf
    BY <1>4, <1>8, <2>1, SessionsKept
  <2>2. CASE sessionOf' = c /\ v = {"OK"}
    BY <1>3, <1>4, <1>8, <2>2 DEF TrustedSessions, CertInv, CertTypeOK
  <2> QED
    BY <1>2, <2>1, <2>2
<1>11. \A d \in Conns : CrlLoopGuarded(d)'
  BY <1>4 DEF CertInv, CertTypeOK, CrlLoopGuarded
<1> QED
  BY <1>5, <1>9, <1>10, <1>11 DEF CertInv, ConnInv

\* A resumed session goes straight to the end.
LEMMA ResumeInv ==
    ASSUME CertInv, NEW c \in Conns, Resume(c)
    PROVE  CertInv'
<1> USE DEF Resume
<1>1. vrf[c] = {"NOTTESTED"}
  BY DEF CertInv, FlagsBefore
<1>2. (vrf[c] \ {"NOTTESTED"}) \cup {"OK"} = {"OK"}
  BY <1>1
<1>3. /\ vrf' \in [Conns -> SUBSET VrfFlags] /\ vrf' = [vrf EXCEPT ![c] = vrf'[c]]
      /\ vrf'[c] = {"OK"}
  BY <1>2 DEF CertInv, CertTypeOK, VrfFlags
<1>4. /\ certPc' \in [Conns -> Pcs] /\ certPc' = [certPc EXCEPT ![c] = certPc'[c]]
      /\ certPc'[c] = "resumed"
  BY DEF CertInv, CertTypeOK, Pcs
<1>5. CertTypeOK'
  <2>1. spoof' \in [Conns -> {"none", "copy", "replacement", "selfSigned"}]
    BY DEF CertInv, CertTypeOK, SpoofKind
  <2> QED
    BY <1>3, <1>4, <2>1 DEF CertInv, CertTypeOK
<1>6. OnlyConn(c)
  BY <1>3, <1>4 DEF OnlyConn, CertInv, CertTypeOK
<1>7. ConnInv(c)'
  BY <1>4 DEF ConnInv, FlagsBefore, FlagsAfter, RequiredSoFar
<1>8. \A d \in Conns : ConnInv(d)'
  BY <1>6, <1>7, ConnsKept
<1>9. TrustedSessions'
  BY <1>3, <1>4, <1>6, NoConnAssumption DEF TrustedSessions, CertInv, CertTypeOK, OnlyConn
<1>10. \A d \in Conns : CrlLoopGuarded(d)'
  BY <1>4 DEF CertInv, CertTypeOK, CrlLoopGuarded
<1> QED
  BY <1>5, <1>8, <1>9, <1>10 DEF CertInv, ConnInv

\* Entries of the caches expire.
LEMMA CacheExpiryInv ==
    ASSUME CertInv, CacheExpiry
    PROVE  CertInv'
<1> USE DEF CacheExpiry, connVars
<1>1. CertTypeOK'
  BY DEF CertInv, CertTypeOK
<1>2. TrustedSessions'
  BY DEF CertInv, TrustedSessions
<1>3. \A d \in Conns : ConnInv(d)'
  BY DEF CertInv, ConnInv, FlagsBefore, FlagsAfter, RequiredSoFar, StatusInstalled
<1>4. \A d \in Conns : CrlLoopGuarded(d)'
  BY DEF CertInv, CrlLoopGuarded
<1> QED
  BY <1>1, <1>2, <1>3, <1>4 DEF CertInv, ConnInv

\* Every step of every connection keeps the invariant.
LEMMA CertNextInv == CertInv /\ [CertNext]_certVars => CertInv'
<1> SUFFICES ASSUME CertInv, [CertNext]_certVars PROVE CertInv'
  OBVIOUS
<1>1. ASSUME NEW c \in Conns, NEW p \in Policies, NEW d \in 0 .. MaxDepth, InitClient(c, p, d)
      PROVE  CertInv'
  BY <1>1, InitClientInv
<1>2. ASSUME NEW c \in Conns, CertStep(c) PROVE CertInv'
  BY <1>2, VerifyCallbackInv, StatusKnownBadInv, StatusNoIssuerInv, StatusStapledInv,
     QueryLookupInv, OcspAnswerInv, VerifyCacheSetInv, CrlLoopEnterInv, CrlUrlInv,
     ConcludeInv, CtCallbackInv, ClientCertCallbackInv, FinishInv, ResumeInv DEF CertStep
<1>3. CASE CacheExpiry
  BY <1>3, CacheExpiryInv
<1>4. CASE UNCHANGED certVars
  BY <1>4 DEF certVars, connVars, CertInv, CertTypeOK, TrustedSessions, FlagsBefore,
     FlagsAfter, RequiredSoFar, CrlLoopGuarded, StatusInstalled
<1> QED
  BY <1>1, <1>2, <1>3, <1>4 DEF CertNext

LEMMA CertInvariant == CertSpec => []CertInv
<1> QED
  BY CertInitInv, CertNextInv, PTL DEF CertSpec

-----------------------------------------------------------------------------
(* What a connection was told stays in hand, or in the flags.              *)

\* A connection whose part of the state stays keeps what it was told.
LEMMA HeardSame ==
    ASSUME NEW d \in Conns, HeardKept(d), heard'[d] = heard[d], certPc'[d] = certPc[d],
           ocspResult'[d] = ocspResult[d], vrf'[d] = vrf[d]
    PROVE  HeardKept(d)'
BY DEF HeardKept

\* Nobody else hears what c is told, and the parts of the others stay.
Apart(c) ==
    \A d \in Conns \ {c} : /\ heard'[d] = heard[d] /\ certPc'[d] = certPc[d]
                           /\ ocspResult'[d] = ocspResult[d] /\ vrf'[d] = vrf[d]

\* A callback outside of the check: it hears nothing and keeps REVOKED.
LEMMA HeardOutside ==
    ASSUME CertTypeOK, NEW c \in Conns, HeardKept(c), heard' = heard, ocspResult' = ocspResult,
           \/ certPc[c] \notin {"answered", "conclude", "ct", "client", "finish", "done", "failed"}
           \/ /\ certPc[c] \in {"ct", "client", "finish"}
              /\ certPc'[c] \in {"client", "finish", "done", "failed"}
              /\ "REVOKED" \in vrf[c] => "REVOKED" \in vrf'[c]
    PROVE  HeardKept(c)'
BY DEF HeardKept

\* Every callback of c keeps what c was told, and leaves the others alone.
LEMMA HeardStep ==
    ASSUME CertTypeOK, NEW c \in Conns, HeardKept(c), CertStep(c)
    PROVE  HeardKept(c)' /\ Apart(c)
<1> USE DEF CertTypeOK
<1>1. ASSUME NEW err \in Errors \cup {"V_OK"}, NEW sha1 \in BOOLEAN, VerifyCallback(c, err, sha1)
      PROVE  HeardKept(c)' /\ Apart(c)
  <2>1. Apart(c)
    BY <1>1 DEF VerifyCallback, Apart
  <2>2. HeardKept(c)'
    BY <1>1, HeardOutside DEF VerifyCallback
  <2> QED
    BY <2>1, <2>2
<1>2. CASE StatusKnownBad(c)
  <2>1. Apart(c)
    BY <1>2 DEF StatusKnownBad, Return, Apart
  <2>2. HeardKept(c)'
    BY <1>2, HeardOutside DEF StatusKnownBad
  <2> QED
    BY <2>1, <2>2
<1>3. CASE StatusNoIssuer(c)
  <2>1. Apart(c)
    BY <1>3 DEF StatusNoIssuer, OobCheck, Return, Apart
  <2>2. HeardKept(c)'
    BY <1>3, HeardOutside DEF StatusNoIssuer
  <2> QED
    BY <2>1, <2>2
<1>4. ASSUME NEW s \in Staples, StatusStapled(c, s) PROVE HeardKept(c)' /\ Apart(c)
  <2>1. /\ \A d \in Conns \ {c} : heard'[d] = heard[d]
        /\ heard'[c] = IF s = "revoked" THEN heard[c] \cup {"staple"} ELSE heard[c]
    BY <1>4, HearsType DEF StatusStapled, Reports
  <2>2. Apart(c)
    BY <1>4, <2>1 DEF StatusStapled, OobCheck, Return, Apart
  <2>3. certPc[c] = "status" /\ heard[c] \cap {"staple", "answer"} = {}
    BY <1>4 DEF StatusStapled, HeardKept
  <2>4. CASE s = "revoked"
    <3>1. "REVOKED" \in vrf'[c] /\ certPc'[c] \in {"ct", "failed"}
      BY <1>4, <2>4 DEF StatusStapled, Return
    <3> QED
      BY <2>2, <3>1 DEF HeardKept
  <2>5. CASE s # "revoked"
    BY <2>1, <2>2, <2>3, <2>5 DEF HeardKept
  <2> QED
    BY <2>4, <2>5
<1>5. CASE QueryLookup(c)
  <2>1. certPc[c] = "query" /\ heard[c] \cap {"staple", "answer"} = {}
    BY <1>5 DEF QueryLookup, HeardKept
  <2>2. CASE heard' = heard
    BY <1>5, <2>1, <2>2 DEF QueryLookup, HeardKept, Apart
  <2>3. ASSUME NEW q \in verifyCache, ocspResult' = [ocspResult EXCEPT ![c] = q],
               Hears(c, "answer", q = 1),
               certPc' = [certPc EXCEPT ![c] = IF q < 0 THEN "crl" ELSE "conclude"]
        PROVE  HeardKept(c)' /\ Apart(c)
    <3>1. /\ \A d \in Conns \ {c} : heard'[d] = heard[d]
          /\ heard'[c] = IF q = 1 THEN heard[c] \cup {"answer"} ELSE heard[c]
      BY <2>3, HearsType DEF Reports
    <3>2. certPc'[c] = (IF q < 0 THEN "crl" ELSE "conclude") /\ ocspResult'[c] = q
      BY <2>3
    <3>3. Apart(c)
      BY <1>5, <2>3, <3>1 DEF QueryLookup, Apart
    <3> QED
      BY <2>1, <3>1, <3>2, <3>3 DEF HeardKept
  <2> QED
    BY <1>5, <2>2, <2>3 DEF QueryLookup
<1>6. ASSUME NEW q \in OcspAnswers, OcspAnswer(c, q) PROVE HeardKept(c)' /\ Apart(c)
  <2>1. certPc[c] = "asking" /\ heard[c] \cap {"staple", "answer"} = {}
    BY <1>6 DEF OcspAnswer, HeardKept
  <2>2. /\ \A d \in Conns \ {c} : heard'[d] = heard[d]
        /\ heard'[c] = IF q = 1 THEN heard[c] \cup {"answer"} ELSE heard[c]
    BY <1>6, HearsType DEF OcspAnswer, Reports
  <2>3. certPc'[c] = "answered" /\ ocspResult'[c] = q /\ Apart(c)
    BY <1>6, <2>2 DEF OcspAnswer, Apart
  <2> QED
    BY <2>1, <2>2, <2>3 DEF HeardKept
<1>7. CASE VerifyCacheSet(c)
  <2>1. /\ certPc[c] = "answered" /\ heard' = heard /\ ocspResult' = ocspResult /\ Apart(c)
        /\ certPc'[c] = IF ocspResult[c] < 0 THEN "crl" ELSE "conclude"
    BY <1>7 DEF VerifyCacheSet, Apart
  <2> QED
    BY <2>1 DEF HeardKept
<1>8. CASE CrlLoopEnter(c)
  <2>1. Apart(c)
    BY <1>8 DEF CrlLoopEnter, Apart
  <2>2. HeardKept(c)'
    BY <1>8, HeardOutside DEF CrlLoopEnter
  <2> QED
    BY <2>1, <2>2
<1>9. ASSUME NEW e \in Downloads, CrlUrl(c, e) PROVE HeardKept(c)' /\ Apart(c)
  <2>1. PICK listed \in BOOLEAN : Hears(c, "listed", listed)
    BY <1>9 DEF CrlUrl
  <2>2. /\ \A d \in Conns \ {c} : heard'[d] = heard[d]
        /\ heard'[c] = IF listed THEN heard[c] \cup {"listed"} ELSE heard[c]
    BY <2>1, HearsType DEF Reports
  <2>3. certPc[c] = "url" /\ Apart(c)
    BY <1>9, <2>2 DEF CrlUrl, Apart
  <2>4. heard[c] \cap {"staple", "answer"} = {}
    BY <2>3 DEF HeardKept
  <2> QED
    BY <2>2, <2>3, <2>4 DEF HeardKept
<1>10. CASE Conclude(c)
  <2>1. /\ certPc[c] = "conclude" /\ heard' = heard /\ Apart(c)
        /\ certPc'[c] \in {"ct", "failed"}
    BY <1>10 DEF Conclude, Return, Apart
  <2>2. ocspResult[c] = 1 => "REVOKED" \in vrf'[c]
    BY <1>10 DEF Conclude, CheckFlags
  <2> QED
    BY <2>1, <2>2 DEF HeardKept
<1>11. ASSUME NEW s \in ScTs, CtCallback(c, s) PROVE HeardKept(c)' /\ Apart(c)
  <2>1. Apart(c)
    BY <1>11 DEF CtCallback, Apart
  <2>2. "REVOKED" \in vrf[c] => "REVOKED" \in vrf'[c]
    BY <1>11 DEF CtCallback
  <2>3. certPc'[c] \in {"client", "failed"} /\ certPc[c] = "ct"
    BY <1>11 DEF CtCallback
  <2> QED
    BY <1>11, <2>1, <2>2, <2>3, HeardOutside DEF CtCallback
<1>12. ASSUME NEW asked \in BOOLEAN, ClientCertCallback(c, asked) PROVE HeardKept(c)' /\ Apart(c)
  <2>1. Apart(c)
    BY <1>12 DEF ClientCertCallback, Apart
  <2>2. "REVOKED" \in vrf[c] => "REVOKED" \in vrf'[c]
    BY <1>12 DEF ClientCertCallback
  <2>3. certPc'[c] \in {"finish", "failed"} /\ certPc[c] = "client"
    BY <1>12 DEF ClientCertCallback
  <2> QED
    BY <1>12, <2>1, <2>2, <2>3, HeardOutside DEF ClientCertCallback
<1>13. ASSUME NEW match \in BOOLEAN, NEW resumable \in BOOLEAN, Finish(c, match, resumable)
       PROVE  HeardKept(c)' /\ Apart(c)
  <2>1. Apart(c)
    BY <1>13 DEF Finish, Apart
  <2>2. "REVOKED" \in vrf[c] => "REVOKED" \in vrf'[c]
    BY <1>13 DEF Finish, HostnameFlags
  <2>3. certPc'[c] = "done" /\ certPc[c] = "finish"
    BY <1>13 DEF Finish
  <2> QED
    BY <1>13, <2>1, <2>2, <2>3, HeardOutside DEF Finish
<1>14. CASE Resume(c)
  <2>1. Apart(c)
    BY <1>14 DEF Resume, Apart
  <2>2. HeardKept(c)'
    BY <1>14, HeardOutside DEF Resume
  <2> QED
    BY <2>1, <2>2
<1> QED
  BY <1>1, <1>2, <1>3, <1>4, <1>5, <1>6, <1>7, <1>8, <1>9, <1>10, <1>11, <1>12, <1>13, <1>14
     DEF CertStep

\* No report is forgotten between the callback that meets it and the verdict.
LEMMA HeardInvariant == CertSpec => [](\A c \in Conns : HeardKept(c))
<1> DEFINE AllKept == \A c \in Conns : HeardKept(c)
<1>1. CertInit => AllKept
  BY DEF CertInit, HeardKept
<1>2. CertInv /\ AllKept /\ [CertNext]_certVars => AllKept'
  <2> SUFFICES ASSUME CertInv, AllKept, [CertNext]_certVars, NEW d \in Conns
               PROVE  HeardKept(d)'
    OBVIOUS
  <2>1. CertTypeOK /\ HeardKept(d)
    BY DEF CertInv
  <2>2. ASSUME NEW c \in Conns, CertStep(c) PROVE HeardKept(d)'
    <3>1. HeardKept(c)' /\ Apart(c)
      BY <2>1, <2>2, HeardStep
    <3>2. CASE d = c
      BY <3>1, <3>2
    <3>3. CASE d # c
      BY <2>1, <3>1, <3>3, HeardSame DEF Apart
    <3> QED
      BY <3>2, <3>3
  <2>3. ASSUME NEW c \in Conns, NEW p \in Policies, NEW n \in 0 .. MaxDepth, InitClient(c, p, n)
        PROVE  HeardKept(d)'
    <3>1. heard' = heard /\ ocspResult' = ocspResult /\ vrf' = vrf
          /\ (d # c => certPc'[d] = certPc[d])
      BY <2>1, <2>3 DEF InitClient, CertTypeOK
    <3>2. CASE d # c
      BY <2>1, <3>1, <3>2, HeardSame
    <3>3. CASE d = c
      BY <2>1, <2>3, <3>1, <3>3 DEF InitClient, HeardKept
    <3> QED
      BY <3>2, <3>3
  <2>4. CASE CacheExpiry
    BY <2>1, <2>4, HeardSame DEF CacheExpiry, connVars
  <2>5. CASE UNCHANGED certVars
    BY <2>1, <2>5, HeardSame DEF certVars, connVars
  <2> QED
    BY <2>2, <2>3, <2>4, <2>5 DEF CertNext
<1> HIDE DEF AllKept
<1>3. CertSpec => []AllKept
  BY <1>1, <1>2, CertInvariant, PTL DEF CertSpec
<1> QED
  BY <1>3 DEF AllKept

\* The state of the certificate check keeps its type, whatever responders,
\* downloads and servers answer (sslcom.tpp, sslcertval.cpp).
THEOREM CertTypes == CertSpec => []CertTypeOK
<1>1. CertInv => CertTypeOK
  BY DEF CertInv
<1> QED
  BY <1>1, CertInvariant, PTL

\* OK after a full handshake means that neither the stapled nor the responders'
\* answer, as the code takes it, was "revoked", that no flag says so, and that
\* the options allow the problems that are left.
THEOREM CertOkMeansClean == CertSpec => []OkMeansClean
<1> DEFINE AllKept == \A c \in Conns : HeardKept(c)
<1>1. CertInv /\ AllKept => OkMeansClean
  <2> SUFFICES ASSUME CertInv, AllKept, NEW c \in Conns, certPc[c] = "done", "OK" \in vrf[c]
               PROVE  /\ heard[c] \subseteq {"listed"}
                      /\ vrf[c] \cap {"REVOKED", "ALLFAILED", "CT_MISSING"} = {}
                      /\ vrf[c] \cap Tolerable \subseteq certOpt[c].allow
    BY DEF OkMeansClean
  <2>1. /\ vrf[c] \cap {"REVOKED", "ALLFAILED", "CT_MISSING"} = {}
        /\ vrf[c] \cap Tolerable \subseteq certOpt[c].allow
    BY DEF CertInv, FlagsAfter
  <2>2. heard[c] \cap {"staple", "answer"} = {}
    BY <2>1 DEF HeardKept
  <2>3. heard[c] \subseteq Reports
    BY DEF CertInv, CertTypeOK
  <2> QED
    BY <2>1, <2>2, <2>3 DEF Reports
<1>2. CertSpec => []AllKept
  BY HeardInvariant
<1> HIDE DEF AllKept
<1> QED
  BY <1>1, <1>2, CertInvariant, PTL

\* A required status has been established when a handshake completes, for any
\* contents of verify_cache and crl_cache.
THEOREM CertRequiredStatusKnown == CertSpec => []RequiredStatusKnown
<1>1. CertInv => RequiredStatusKnown
  BY DEF CertInv, RequiredStatusKnown, RequiredSoFar
<1> QED
  BY <1>1, CertInvariant, PTL

\* Sessions that store_session_if_needed keeps, and resumed connections, rest on
\* a verdict of OK and nothing else.
THEOREM CertTrustedSessions == CertSpec => []TrustedSessions
<1>1. CertInv => TrustedSessions
  BY DEF CertInv
<1> QED
  BY <1>1, CertInvariant, PTL

-----------------------------------------------------------------------------
(* OcspQuery: the index of the responder.                                  *)

\* Queries that have started, also between two states of the switch of run().
Started ==
    {q \in QueryType : /\ q.targets = q.list /\ q.index \in -1 .. Len(q.list)
                       /\ q.conn => q.index \in 0 .. Len(q.list) - 1}

LEMMA QueryFields ==
    ASSUME NEW q \in QueryType
    PROVE  /\ q.list \in TargetLists /\ q.faults \in SUBSET OcspFaults
           /\ q.state \in OcspStates /\ q.yield \in OcspYields /\ q.index \in Int
           /\ q.conn \in BOOLEAN /\ q.ok \in BOOLEAN /\ q.blind \in BOOLEAN
           /\ q.list \in Seq({"http", "https"}) /\ Len(q.list) \in Nat
<1>1. /\ q.list \in TargetLists /\ q.faults \in SUBSET OcspFaults
      /\ q.state \in OcspStates /\ q.yield \in OcspYields /\ q.index \in Int
      /\ q.conn \in BOOLEAN /\ q.ok \in BOOLEAN /\ q.blind \in BOOLEAN
  BY DEF QueryType
<1>2. q.list \in Seq({"http", "https"})
  BY <1>1, TargetListsAssumption
<1>3. ASSUME NEW S, NEW u \in Seq(S) PROVE Len(u) \in Nat
  OBVIOUS
<1> QED
  BY <1>1, <1>2, <1>3

\* The least usable position is one of them.
LEMMA FirstUsable ==
    ASSUME NEW I \in SUBSET Nat, I # {} PROVE Min(I) \in I
<1> DEFINE R == OpToRel(<, Nat)
<1>1. IsWellFoundedOn(R, Nat)
  BY NatLessThanWellFounded
<1>2. R = {ss \in Nat \X Nat : ss[1] < ss[2]}
  BY DEF OpToRel
<1> HIDE DEF R
<1>3. PICK i \in I : \A j \in I : <<j, i>> \notin R
  BY <1>1, WFMin
<1>4. \A j \in I : i <= j
  <2>1. \A j \in I : ~(j < i)
    BY <1>2, <1>3
  <2>2. \A j \in Nat : ~(j < i) => i <= j
    BY <1>3
  <2> QED
    BY <2>1, <2>2
<1> QED
  BY <1>3, <1>4 DEF Min

LEMMA NextTargetStarted ==
    ASSUME NEW q \in Started, q.conn, NEW s \in OcspStates, NEW y \in OcspYields,
           NEW p, p = [q EXCEPT !.conn = FALSE, !.index = @ + 1, !.state = s, !.yield = y, !.ok = FALSE]
    PROVE  p \in Started
<1> DEFINE i == q.index + 1
<1>0. p = [q EXCEPT !.conn = FALSE, !.index = i, !.state = s, !.yield = y, !.ok = FALSE]
  OBVIOUS
<1>1. q \in QueryType /\ q.targets = q.list /\ q.index \in 0 .. Len(q.list) - 1
  BY DEF Started
<1>2. Len(q.list) \in Nat
  BY <1>1, QueryFields
<1>3. i \in Int /\ i \in -1 .. Len(q.list)
  BY <1>1, <1>2
<1> HIDE DEF i
<1>4. p \in QueryType /\ p.list = q.list /\ p.targets = q.targets /\ p.index = i /\ p.conn = FALSE
  BY <1>0, <1>1, <1>3 DEF QueryType
<1> QED
  BY <1>1, <1>3, <1>4 DEF Started

LEMMA PrepareTargetStarted ==
    ASSUME NEW q \in Started, ~q.conn PROVE PrepareTarget(q) \in Started
<1> DEFINE skip == IF q.index >= 0 THEN q.index ELSE 0
           left == Usable(q, skip)
           n == Len(q.list)
<1>1. q \in QueryType /\ q.targets = q.list /\ q.index \in -1 .. n
  BY DEF Started
<1>2. n \in Nat /\ q.conn = FALSE
  BY <1>1, QueryFields
<1>3. skip \in Nat
  BY <1>1, <1>2
<1>4. left \in SUBSET (0 .. n - 1) /\ left \in SUBSET Nat
  <2>1. left \subseteq skip .. n - 1
    BY <1>1 DEF Usable
  <2> HIDE DEF left
  <2> QED
    BY <1>2, <1>3, <2>1
<1>5. CASE left = {}
  <2> DEFINE i == n - 1
             p == [q EXCEPT !.index = i]
  <2>1. PrepareTarget(q) = p
    BY <1>1, <1>5 DEF PrepareTarget
  <2>2. i \in Int /\ i \in -1 .. n
    BY <1>2
  <2> HIDE DEF i
  <2>3. p \in QueryType /\ p.list = q.list /\ p.targets = q.targets /\ p.index = i /\ p.conn = FALSE
    BY <1>1, <1>2, <2>2 DEF QueryType
  <2> QED
    BY <1>1, <2>1, <2>2, <2>3 DEF Started
<1>6. CASE left # {}
  <2> DEFINE i == Min(left)
             p == [q EXCEPT !.index = i, !.conn = TRUE, !.state = "CONNECTING"]
  <2>1. PrepareTarget(q) = p
    BY <1>6 DEF PrepareTarget
  <2>2. i \in left
    <3> HIDE DEF left
    <3> QED
      BY <1>4, <1>6, FirstUsable
  <2> HIDE DEF left
  <2> HIDE DEF i
  <2>3. i \in Int /\ i \in -1 .. n /\ i \in 0 .. n - 1
    <3>1. i \in 0 .. n - 1
      BY <1>4, <2>2
    <3> QED
      BY <1>2, <3>1
  <2>4. p \in QueryType /\ p.list = q.list /\ p.targets = q.targets /\ p.index = i /\ p.conn = TRUE
    BY <1>1, <2>3 DEF QueryType, OcspStates
  <2> QED
    BY <1>1, <2>1, <2>3, <2>4 DEF Started
<1> QED
  BY <1>5, <1>6

LEMMA DoConnectStarted ==
    ASSUME NEW q \in Started, NEW p \in DoConnect(q) PROVE p \in Started
<1> DEFINE c == IF q.conn THEN q ELSE PrepareTarget(q)
<1>1. c \in Started
  BY PrepareTargetStarted
<1>2. \/ p = [c EXCEPT !.state = "FINISHED", !.yield = "NOOCSP_TARGETS", !.ok = TRUE]
      \/ p = [c EXCEPT !.state = "CONNECTED", !.ok = TRUE]
      \/ p = [c EXCEPT !.ok = FALSE]
      \/ c.conn /\ p = [c EXCEPT !.conn = FALSE, !.index = @ + 1, !.state = "CLOSED",
                                 !.yield = "CONNFAIL", !.ok = FALSE]
  BY DEF DoConnect
<1> HIDE DEF c
<1>3. c \in QueryType
  BY <1>1 DEF Started
<1>4. CASE \/ p = [c EXCEPT !.state = "FINISHED", !.yield = "NOOCSP_TARGETS", !.ok = TRUE]
           \/ p = [c EXCEPT !.state = "CONNECTED", !.ok = TRUE]
           \/ p = [c EXCEPT !.ok = FALSE]
  <2>1. p \in QueryType /\ p.list = c.list /\ p.targets = c.targets /\ p.index = c.index /\ p.conn = c.conn
    BY <1>3, <1>4 DEF QueryType, OcspStates, OcspYields
  <2> QED
    BY <1>1, <2>1 DEF Started
<1>5. CASE c.conn /\ p = [c EXCEPT !.conn = FALSE, !.index = @ + 1, !.state = "CLOSED",
                                   !.yield = "CONNFAIL", !.ok = FALSE]
  <2>1. "CLOSED" \in OcspStates /\ "CONNFAIL" \in OcspYields
    BY DEF OcspStates, OcspYields
  <2> QED
    BY <1>1, <1>5, <2>1, NextTargetStarted
<1> QED
  BY <1>2, <1>4, <1>5

LEMMA DoSendRequestStarted ==
    ASSUME NEW q \in Started, NEW r \in DoSendRequest(q) PROVE r \in Started
<1> DEFINE p == [q EXCEPT !.state = "REQ_INPROGRESS", !.ok = FALSE]
<1>0. q \in QueryType
  BY DEF Started
<1>1. /\ p \in QueryType /\ p.list = q.list /\ p.targets = q.targets /\ p.index = q.index
      /\ p.conn = q.conn
  BY <1>0 DEF QueryType, OcspStates
<1>2. p \in Started
  BY <1>1 DEF Started
<1>3. \/ r = [p EXCEPT !.blind = TRUE] \/ r = p \/ r = [p EXCEPT !.state = "RESP_RECEIVED", !.ok = TRUE]
      \/ q.conn /\ r = NextTarget(p)
  BY DEF DoSendRequest
<1> HIDE DEF p
<1>4. CASE r = [p EXCEPT !.blind = TRUE] \/ r = p \/ r = [p EXCEPT !.state = "RESP_RECEIVED", !.ok = TRUE]
  <2>1. r \in QueryType /\ r.list = p.list /\ r.targets = p.targets /\ r.index = p.index /\ r.conn = p.conn
    BY <1>1, <1>4 DEF QueryType, OcspStates
  <2> QED
    BY <1>2, <2>1 DEF Started
<1>5. CASE q.conn /\ r = NextTarget(p)
  <2>1. "CONNECTING" \in OcspStates /\ p.yield \in OcspYields
    BY <1>1, QueryFields DEF OcspStates
  <2> DEFINE y == p.yield
             s == "CONNECTING"
  <2>2. r = [p EXCEPT !.conn = FALSE, !.index = @ + 1, !.state = s, !.yield = y, !.ok = FALSE]
    BY <1>1, <1>5 DEF NextTarget, QueryType
  <2>3. p.conn /\ s \in OcspStates /\ y \in OcspYields
    BY <1>1, <1>5, <2>1
  <2> HIDE DEF s, y
  <2> QED
    BY <1>2, <2>2, <2>3, NextTargetStarted
<1> QED
  BY <1>3, <1>4, <1>5

LEMMA RunFromRequestStarted ==
    ASSUME NEW q \in Started, NEW r \in RunFromRequest(q) PROVE r \in Started
<1>1. PICK p \in DoSendRequest(q) :
         r \in IF p.ok THEN DoProcessResponse([p EXCEPT !.state = "REQ_SENT"])
               ELSE {[p EXCEPT !.ok = TRUE]}
  BY DEF RunFromRequest
<1>2. p \in Started /\ p \in QueryType
  BY DoSendRequestStarted DEF Started
<1>4. \/ r = [p EXCEPT !.ok = TRUE]
      \/ \E y \in {"UNKNOWN", "VALID", "REVOKED"} :
            r = [[p EXCEPT !.state = "REQ_SENT"] EXCEPT !.state = "FINISHED", !.yield = y, !.ok = FALSE]
  BY <1>1 DEF DoProcessResponse
<1>5. /\ r \in QueryType /\ r.list = p.list /\ r.targets = p.targets /\ r.index = p.index
      /\ r.conn = p.conn
  BY <1>2, <1>4 DEF QueryType, OcspStates, OcspYields
<1> QED
  BY <1>2, <1>5 DEF Started

LEMMA RunFromConnectStarted ==
    ASSUME NEW q \in Started, NEW r \in RunFromConnect(q)
    PROVE  r \in Started
<1>1. PICK p \in DoConnect(q) :
         r \in IF p.ok THEN RunFromRequest([p EXCEPT !.state = "CONNECTED"])
               ELSE {[p EXCEPT !.ok = p.state # "CONNECTING"]}
  BY DEF RunFromConnect
<1>2. p \in Started /\ p \in QueryType
  BY DoConnectStarted DEF Started
<1>3. CASE p.ok
  <2> DEFINE c == [p EXCEPT !.state = "CONNECTED"]
  <2>1. c \in QueryType /\ c.list = p.list /\ c.targets = p.targets /\ c.index = p.index /\ c.conn = p.conn
    BY <1>2 DEF QueryType, OcspStates
  <2>2. c \in Started
    BY <1>2, <2>1 DEF Started
  <2> HIDE DEF c
  <2>3. r \in RunFromRequest(c)
    BY <1>1, <1>3 DEF c
  <2> QED
    BY <2>2, <2>3, RunFromRequestStarted
<1>4. CASE ~p.ok
  <2> DEFINE k == p.state # "CONNECTING"
  <2>1. r = [p EXCEPT !.ok = k] /\ k \in BOOLEAN
    BY <1>1, <1>4
  <2> HIDE DEF k
  <2>2. r \in QueryType /\ r.list = p.list /\ r.targets = p.targets /\ r.index = p.index /\ r.conn = p.conn
    BY <1>2, <2>1 DEF QueryType
  <2> QED
    BY <1>2, <2>2 DEF Started
<1> QED
  BY <1>3, <1>4

LEMMA DoInitStarted ==
    ASSUME NEW q, QuerySound(q) PROVE DoInit(q) \in Started
<1> DEFINE p == [q EXCEPT !.targets = q.list]
<1>1. q \in QueryType /\ q.index \in -1 .. Len(q.list)
  BY DEF QuerySound
<1>2. q.list \in Seq({"http", "https"}) /\ Len(q.list) \in Nat
  BY <1>1, QueryFields
<1>3. q.conn => q.index \in 0 .. Len(q.list) - 1
  <2>1. ASSUME q.conn, q.targets = <<>> PROVE FALSE
    <3>1. Len(q.targets) = 0 /\ q.index \in 0 .. Len(q.targets) - 1
      BY <2>1 DEF QuerySound
    <3>2. q.index \in 0 .. 0 - 1
      BY <3>1
    <3> QED
      BY <1>1, <3>2
  <2> QED
    BY <2>1 DEF QuerySound
<1>4. p \in QueryType /\ p.list = q.list /\ p.targets = q.list /\ p.index = q.index /\ p.conn = q.conn
  BY <1>1, <1>2 DEF QueryType
<1>5. p \in Started
  BY <1>1, <1>3, <1>4 DEF Started
<1>6. DoInit(q) = p \/ DoInit(q) = [p EXCEPT !.state = "FINISHED", !.yield = "NOOCSP_TARGETS"]
  BY DEF DoInit
<1> HIDE DEF p
<1>7. CASE DoInit(q) = [p EXCEPT !.state = "FINISHED", !.yield = "NOOCSP_TARGETS"]
  <2> DEFINE d == DoInit(q)
  <2> HIDE DEF d
  <2>1. d = [p EXCEPT !.state = "FINISHED", !.yield = "NOOCSP_TARGETS"]
    BY <1>7 DEF d
  <2>2. d \in QueryType /\ d.list = p.list /\ d.targets = p.targets /\ d.index = p.index /\ d.conn = p.conn
    BY <1>4, <2>1 DEF QueryType, OcspStates, OcspYields
  <2>3. d \in Started
    BY <1>5, <2>2 DEF Started
  <2> QED
    BY <2>3 DEF d
<1> QED
  BY <1>5, <1>6, <1>7

LEMMA StartedIsSound ==
    ASSUME NEW q \in Started PROVE QuerySound(q)
BY DEF Started, QuerySound

LEMMA OcspRunStep ==
    ASSUME NEW q, QuerySound(q), q.state # "FINISHED", NEW r \in OcspRunOutcomes(q)
    PROVE  QuerySound(r)
<1>1. q \in QueryType
  BY DEF QuerySound
<1>2. ASSUME q.state # "INIT" PROVE q \in Started
  BY <1>2 DEF QuerySound, Started
<1>3. CASE q.state = "INIT"
  <2>1. r \in RunFromConnect(DoInit(q))
    BY <1>3 DEF OcspRunOutcomes
  <2> QED
    BY <2>1, DoInitStarted, RunFromConnectStarted, StartedIsSound
<1>4. CASE q.state = "CONNECTING"
  <2>1. r \in RunFromConnect(q) /\ q \in Started
    BY <1>2, <1>4 DEF OcspRunOutcomes
  <2> QED
    BY <2>1, RunFromConnectStarted, StartedIsSound
<1>5. CASE q.state \in {"CONNECTED", "REQ_INPROGRESS"}
  <2>1. r \in RunFromRequest(q) /\ q \in Started
    BY <1>2, <1>5 DEF OcspRunOutcomes
  <2> QED
    BY <2>1, RunFromRequestStarted, StartedIsSound
<1>6. CASE q.state \notin {"INIT", "CONNECTING", "CONNECTED", "REQ_INPROGRESS"}
  <2>1. r = [q EXCEPT !.ok = TRUE]
    BY <1>6 DEF OcspRunOutcomes
  <2>2. r \in QueryType /\ r.list = q.list /\ r.targets = q.targets /\ r.index = q.index /\ r.conn = q.conn
        /\ r.state = q.state
    BY <1>1, <2>1 DEF QueryType
  <2> QED
    BY <2>2 DEF QuerySound
<1> QED
  BY <1>3, <1>4, <1>5, <1>6

\* OcspQuery::run, called any number of times for any list of responders: a
\* query with a connection is at one of its targets.
THEOREM OcspInvariant == OcspSpec => []OcspInv
<1>1. OcspInit => OcspInv
  <2> SUFFICES ASSUME NEW list \in TargetLists, NEW faults \in {{}, {"late"}, OcspFaults},
                      ocsp = NewQuery(list, faults)
               PROVE  OcspInv
    BY DEF OcspInit
  <2>1. list \in Seq({"http", "https"}) /\ faults \in SUBSET OcspFaults
    BY TargetListsAssumption DEF OcspFaults
  <2>2. /\ ocsp.list = list /\ ocsp.targets = <<>> /\ ocsp.index = -1 /\ ocsp.conn = FALSE
        /\ ocsp.state = "INIT"
    BY DEF NewQuery
  <2>3. ASSUME NEW S PROVE <<>> \in Seq(S)
    OBVIOUS
  <2>4. ocsp \in QueryType
    <3> DEFINE t == <<>>
    <3>1. t \in Seq({"http", "https"}) /\ -1 \in Int
      BY <2>3
    <3>2. ocsp = [list |-> list, faults |-> faults, targets |-> t, state |-> "INIT",
                  yield |-> "UNKNOWN", index |-> -1, conn |-> FALSE, ok |-> TRUE, blind |-> FALSE]
      BY DEF NewQuery
    <3> HIDE DEF t
    <3> QED
      BY <2>1, <3>1, <3>2 DEF QueryType, OcspStates, OcspYields
  <2>5. -1 \in -1 .. Len(list)
    BY <2>1
  <2> QED
    BY <2>2, <2>4, <2>5 DEF OcspInv, QuerySound
<1>2. OcspInv /\ [OcspNext]_ocsp => OcspInv'
  <2>1. ASSUME OcspInv, OcspRun PROVE OcspInv'
    BY <2>1, OcspRunStep DEF OcspInv, OcspRun
  <2>2. ASSUME OcspInv, ocsp' = ocsp PROVE OcspInv'
    BY <2>2 DEF OcspInv
  <2> QED
    BY <2>1, <2>2 DEF OcspNext
<1> QED
  BY <1>1, <1>2, PTL DEF OcspSpec

\* The index of the responder in OcspQuery (ocsp_target_index) never passes the
\* end of the list, however connections and requests fail, and the rest of the
\* query keeps its type.
THEOREM OcspTypesKept == OcspSpec => []OcspTypeOK
<1>1. OcspInv => OcspTypeOK
  BY QueryFields DEF OcspInv, QuerySound, OcspTypeOK
<1> QED
  BY <1>1, OcspInvariant, PTL
=============================================================================
