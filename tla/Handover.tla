------------------------------ MODULE Handover ------------------------------
(***************************************************************************)
(* What an acceptor with workers promises for the sockets it accepts,      *)
(* without threads, hints or loads: a socket arrives, waits in line, is    *)
(* given to a worker in its turn, which alone ends its service.             *)
(* FdQueue implements this specification.                                  *)
(***************************************************************************)
EXTENDS Sequences

CONSTANT Fds

VARIABLES
    status,     \* where each socket is in its life
    line        \* the waiting sockets, first come first served

vars == <<status, line>>

Init ==
    /\ status = [f \in Fds |-> "arriving"]
    /\ line = <<>>

\* A new socket queues up.
Arrive(f) ==
    /\ status[f] = "arriving"
    /\ status' = [status EXCEPT ![f] = "waiting"]
    /\ line' = Append(line, f)

\* The first in line is given to a worker.
Give ==
    /\ line # <<>>
    /\ status[Head(line)] = "waiting"
    /\ status' = [status EXCEPT ![Head(line)] = "served"]
    /\ line' = Tail(line)

\* The service of sockets ends, several at once when a worker ends.  Normally
\* they are closed; after a failed set-up one may be left open and unserved.
Close(S) ==
    /\ \A f \in S : status[f] = "served"
    /\ status' = [f \in Fds |-> IF f \in S THEN "closed" ELSE status[f]]
    /\ line' = line

Next ==
    \/ \E f \in Fds : Arrive(f)
    \/ Give
    \/ \E S \in SUBSET Fds : Close(S)

Spec == Init /\ [][Next]_vars
=============================================================================
