----------------------------- MODULE MCSessions -----------------------------
(***************************************************************************)
(* The sessions of a worker for TLC: a proxied TLS session, an OCSP query, *)
(* and the UDP sessions.  They share no state, so a behaviour moves one of *)
(* them, chosen at the start, and leaves the others as they are.           *)
(***************************************************************************)
EXTENDS TlsPair, OcspQuery, Datagrams

CONSTANT SessionKinds   \* the kinds of sessions checked

VARIABLE kind

sessionVars == <<kind, tls, ocsp, dg>>

\* A session that does not move is one fixed session: a TLS session not
\* connected yet, or a query that has finished.
TlsAsleep == TlsInit /\ ~tls.slow
OcspAsleep == ocsp = [NewQuery(<<>>, {}) EXCEPT !.state = "FINISHED"]

SessionsInit ==
    /\ kind \in SessionKinds
    /\ IF kind = "tls" THEN TlsInit ELSE TlsAsleep
    /\ IF kind = "ocsp" THEN OcspInit ELSE OcspAsleep
    /\ DgInit

SessionsNext ==
    \/ kind = "tls" /\ TlsNext /\ UNCHANGED <<kind, ocsp, dg>>
    \/ kind = "ocsp" /\ OcspNext /\ UNCHANGED <<kind, tls, dg>>
    \/ kind = "udp" /\ DgNext /\ UNCHANGED <<kind, tls, ocsp>>

\* A session that does not move has no fair step to take.
SessionsSpec ==
    /\ SessionsInit /\ [][SessionsNext]_sessionVars
    /\ TlsFairness /\ OcspFairness /\ DgFairness

\* The sessions have their types.
SessionsTypeOK == TlsTypeOK /\ OcspTypeOK /\ DgTypeOK

MCTargetLists == UNION {[1..n -> {"http", "https"}] : n \in 0..3}
=============================================================================
