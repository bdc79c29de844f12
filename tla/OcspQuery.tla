------------------------------ MODULE OcspQuery ------------------------------
(***************************************************************************)
(* inet::ocsp::OcspQuery (sslcertval.cpp): a query that its owner advances *)
(* by calling run() whenever the socket is ready.  run() is a switch that  *)
(* falls through from state to state; the responders of the certificate    *)
(* are tried in the order of its URLs, https ones are skipped.             *)
(*                                                                         *)
(* Every function is an operator from a query to the set of queries it may *)
(* become; "ok" is the value it returns.                                   *)
(***************************************************************************)
EXTENDS Integers, Sequences, FiniteSetsExt

CONSTANT TargetLists    \* lists of responders a certificate may name
ASSUME TargetListsAssumption == TargetLists \subseteq Seq({"http", "https"})

VARIABLE ocsp

OcspStates == {"INIT", "CONNECTING", "CONNECTED", "REQ_INPROGRESS", "REQ_SENT",
               "RESP_RECEIVED", "FINISHED", "CLOSED"}
OcspYields == {"CONNFAIL", "UNKNOWN", "REVOKED", "VALID", "NOOCSP_TARGETS"}

\* What may go wrong with a responder: the connection is not established in
\* time; the request is answered too late, or by an error.
OcspFaults == {"connect", "late", "broken"}

\* A query as its constructor leaves it.
NewQuery(list, faults) ==
    [list |-> list, faults |-> faults, targets |-> <<>>, state |-> "INIT",
     yield |-> "UNKNOWN", index |-> -1, conn |-> FALSE, ok |-> TRUE, blind |-> FALSE]

OcspInit ==
    \E list \in TargetLists, faults \in {{}, {"late"}, OcspFaults} : ocsp = NewQuery(list, faults)

\* parse_cert and do_init.
DoInit(q) ==
    LET p == [q EXCEPT !.targets = q.list]
    IN  IF p.targets = <<>> THEN [p EXCEPT !.state = "FINISHED", !.yield = "NOOCSP_TARGETS"]
        ELSE p

\* Positions count from 0.
Usable(q, skip) == {i \in skip .. Len(q.targets) - 1 : q.targets[i + 1] = "http"}

\* do_prepare_target: the first usable target from index on; when there is
\* none the loop leaves the index at the last one.
PrepareTarget(q) ==
    LET skip == IF q.index >= 0 THEN q.index ELSE 0
        left == Usable(q, skip)
    IN  IF left = {} THEN [q EXCEPT !.index = Len(q.targets) - 1]
        ELSE [q EXCEPT !.index = Min(left), !.conn = TRUE, !.state = "CONNECTING"]

\* do_connect: connected, pending, timed out, or refused without a retry flag.
DoConnect(q) ==
    LET c == IF q.conn THEN q ELSE PrepareTarget(q)
    IN  IF ~c.conn
        THEN {[c EXCEPT !.state = "FINISHED", !.yield = "NOOCSP_TARGETS", !.ok = TRUE]}
        ELSE {[c EXCEPT !.state = "CONNECTED", !.ok = TRUE], [c EXCEPT !.ok = FALSE]}
             \cup (IF "connect" \in q.faults
                   THEN {[c EXCEPT !.conn = FALSE, !.index = @ + 1, !.state = "CLOSED",
                                   !.yield = "CONNFAIL", !.ok = FALSE]}
                   ELSE {})

\* Mutant: after a failed request the query does not go back to connecting.
NextTargetStays(q) == [q EXCEPT !.conn = FALSE, !.index = @ + 1, !.ok = FALSE]

\* Mutant: the index is advanced at the failure and at the error label.
NextTargetTwice(q) ==
    [q EXCEPT !.conn = FALSE, !.index = @ + 2, !.state = "CONNECTING", !.ok = FALSE]

\* The error label of do_send_request.
NextTarget(q) ==
    [q EXCEPT !.conn = FALSE, !.index = @ + 1, !.state = "CONNECTING", !.ok = FALSE]

\* do_send_request.  In a run where only late answers happen the last usable
\* responder is not late.
DoSendRequest(q) ==
    LET p == [q EXCEPT !.state = "REQ_INPROGRESS", !.ok = FALSE]
    IN  IF ~q.conn THEN {[p EXCEPT !.blind = TRUE]}
        ELSE {p, [p EXCEPT !.state = "RESP_RECEIVED", !.ok = TRUE]}
             \cup {NextTarget(p) : f \in IF "broken" \in q.faults \/ Usable(q, q.index + 1) # {}
                                         THEN {"late"} \cap q.faults ELSE {}}

\* do_process_response.
DoProcessResponse(q) ==
    {[q EXCEPT !.state = "FINISHED", !.yield = y, !.ok = FALSE]
        : y \in {"UNKNOWN", "VALID", "REVOKED"}}

RunFromRequest(q) ==
    UNION {IF p.ok THEN DoProcessResponse([p EXCEPT !.state = "REQ_SENT"])
           ELSE {[p EXCEPT !.ok = TRUE]}
        : p \in DoSendRequest(q)}

\* A connection attempt that succeeded, or "reported finished", goes on with
\* the request.
RunFromConnect(q) ==
    UNION {IF p.ok THEN RunFromRequest([p EXCEPT !.state = "CONNECTED"])
           ELSE {[p EXCEPT !.ok = p.state # "CONNECTING"]}
        : p \in DoConnect(q)}

\* run(): ok is its result.
OcspRunOutcomes(q) ==
    CASE q.state = "INIT" -> RunFromConnect(DoInit(q))
      [] q.state = "CONNECTING" -> RunFromConnect(q)
      [] q.state \in {"CONNECTED", "REQ_INPROGRESS"} -> RunFromRequest(q)
      [] q.state = "FINISHED" -> {[q EXCEPT !.ok = FALSE]}
      [] OTHER -> {[q EXCEPT !.ok = TRUE]}

OcspRun == ocsp.state # "FINISHED" /\ ocsp' \in OcspRunOutcomes(ocsp)

OcspNext == OcspRun

OcspSpec == OcspInit /\ [][OcspNext]_ocsp

\* The owner calls run() again, and a responder that neither fails nor is
\* late answers in the end.
OcspAnswered == OcspRun /\ ocsp'.state # ocsp.state
OcspFairness == WF_ocsp(OcspRun) /\ SF_ocsp(OcspAnswered)

-----------------------------------------------------------------------------
(* Properties.                                                             *)

\* The query has its type.
OcspTypeOK ==
    /\ ocsp.list \in TargetLists /\ ocsp.targets \in {<<>>, ocsp.list}
    /\ ocsp.state \in OcspStates /\ ocsp.yield \in OcspYields
    /\ ocsp.index \in -1 .. Len(ocsp.list)
    /\ ocsp.conn \in BOOLEAN /\ ocsp.ok \in BOOLEAN /\ ocsp.blind \in BOOLEAN

\* When responders fail only by being late and one of them answers, the query
\* finishes with an answer.
LateIsSurvived ==
    (ocsp.faults \subseteq {"late"} /\ Usable(ocsp, 0) # {}) ~> (ocsp.state = "FINISHED")

-----------------------------------------------------------------------------
(* The inductive invariant behind the type.                                *)

QueryType == [
    list : TargetLists, faults : SUBSET OcspFaults, targets : Seq({"http", "https"}),
    state : OcspStates, yield : OcspYields, index : Int, conn : BOOLEAN, ok : BOOLEAN,
    blind : BOOLEAN]

\* A query that has a connection is at one of its targets, so that a failure may
\* go on to the next index; all targets are there once the query has started.
QuerySound(q) ==
    /\ q \in QueryType /\ q.targets \in {<<>>, q.list} /\ q.index \in -1 .. Len(q.list)
    /\ q.state # "INIT" => q.targets = q.list
    /\ q.conn => q.index \in 0 .. Len(q.targets) - 1

OcspInv == QuerySound(ocsp)
=============================================================================
