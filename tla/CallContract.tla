---------------------------- MODULE CallContract ----------------------------
(* What an SRPC invocation promises its caller, whatever the transport does: *)
(* the handler starts at most once, a call refused before it was sent never  *)
(* starts, a result is only reported for a handler that started, and every   *)
(* call that was sent is settled.  SrpcConnection is shown to implement it.  *)
EXTENDS Naturals

CONSTANT Calls

VARIABLES status, runs

vars == <<status, runs>>

Init == /\ status = [q \in Calls |-> "new"]
        /\ runs = [q \in Calls |-> 0]

Send(q) == /\ status[q] = "new"
           /\ status' = [status EXCEPT ![q] = "sent"]
           /\ UNCHANGED runs

\* "refused" tells the caller that the request never left.
Refuse(q) == /\ status[q] = "new"
             /\ status' = [status EXCEPT ![q] = "refused"]
             /\ UNCHANGED runs

Result(q) == /\ status[q] = "sent" /\ runs[q] = 1
             /\ status' = [status EXCEPT ![q] = "result"]
             /\ UNCHANGED runs

\* One step of the transport can abandon several calls (a closed connection) and
\* start several (a queue that opens); a handler may start after its caller has
\* given up, since the request may already be on its way.
Transport(Q, R) ==
    /\ \A q \in Q : status[q] \in {"new", "sent"}
    /\ \A q \in R : runs[q] = 0 /\ status[q] \in {"sent", "indeterminate"}
    /\ status' = [q \in Calls |-> IF q \in Q THEN "indeterminate" ELSE status[q]]
    /\ runs' = [q \in Calls |-> IF q \in R THEN 1 ELSE runs[q]]

Next == \/ \E q \in Calls : Send(q) \/ Refuse(q) \/ Result(q)
        \/ \E Q, R \in SUBSET Calls : Transport(Q, R)

Settle(q) == /\ status[q] = "sent"
             /\ Result(q) \/ Transport({q}, {})

Spec == Init /\ [][Next]_vars /\ \A q \in Calls : WF_vars(Settle(q))
=============================================================================
