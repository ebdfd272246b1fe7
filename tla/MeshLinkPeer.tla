----------------------------- MODULE MeshLinkPeer ---------------------------
(* MeshLinkPeer: requests over a link.  The answering side admits a request   *)
(* against the budget of its runtime, answers a repeated request ID from its  *)
(* completed requests, and keeps the budget of a closed link's handlers until *)
(* they return.  Several links share the runtime's budget.                    *)
EXTENDS Naturals, FiniteSets, FiniteSetsExt

CONSTANTS Requests,          \* request IDs
          LinkOf,            \* the link each request goes over
          MaxInFlight,       \* MaxInFlightRequests
          MaxCompleted,      \* MaxCompletedRequests
          MaxCompletedBytes, \* MaxCompletedRequestBytes
          Reserve,           \* CompletedTombstoneReserveBytes
          Sizes,             \* sizes of answers; an error and a tombstone have size 1
          MaxFaults          \* bound on repeated frames, failed sends, timeouts and closed links

Peers == {LinkOf[i] : i \in Requests}

VARIABLES
    at,         \* per request, at its sender: "new", "pending", "resolved", "rejected",
                \* "indeterminate", "unsent"
    wire,       \* frames: <<"request" | "ok" | "error" | "refused" | "gone", i>>
    closed,     \* <<side, link>>: ends that have closed; side "asking" or "answering"
    active,     \* activeIncoming: requests whose handler runs
    budget,     \* the runtime's activeRequests
    completed,  \* per request: [kind, size, old]; kind "none" or the reply that is kept: "ok",
                \* "error", "gone" (a tombstone)
    runs,       \* history: how often the handler was started
    forgotten,  \* history: how often the request was forgotten by age
    faults

vars == <<at, wire, closed, active, budget, completed, runs, forgotten, faults>>

NotCompleted == [kind |-> "none", size |-> 0, old |-> FALSE]

Init == /\ at = [i \in Requests |-> "new"] /\ wire = {} /\ closed = {}
        /\ active = {} /\ budget = 0 /\ completed = [i \in Requests |-> NotCompleted]
        /\ runs = [i \in Requests |-> 0] /\ forgotten = [i \in Requests |-> 0] /\ faults = 0

Fault == faults < MaxFaults /\ faults' = faults + 1
Over(p) == {i \in Requests : LinkOf[i] = p}
Connected(side, p) == <<side, p>> \notin closed

\* handleClose() at the sender's end: what was sent may or may not have been done.
Rejected(p) == [i \in Requests |-> IF i \in Over(p) /\ at[i] = "pending" THEN "indeterminate" ELSE at[i]]

\* request(): refused by the limit or by a failed send, else sent.
Request(i) ==
    /\ at[i] = "new"
    /\ IF Connected("asking", LinkOf[i]) /\ Cardinality({j \in Over(LinkOf[i]) : at[j] = "pending"}) < MaxInFlight
       THEN \/ at' = [at EXCEPT ![i] = "pending"] /\ wire' = wire \cup {<<"request", i>>} /\ UNCHANGED faults
            \/ Fault /\ at' = [at EXCEPT ![i] = "unsent"] /\ UNCHANGED wire
       ELSE at' = [at EXCEPT ![i] = "unsent"] /\ UNCHANGED <<wire, faults>>
    /\ UNCHANGED <<closed, active, budget, completed, runs, forgotten>>

RequestTimesOut(i) ==
    /\ at[i] = "pending" /\ Fault /\ at' = [at EXCEPT ![i] = "indeterminate"]
    /\ UNCHANGED <<wire, closed, active, budget, completed, runs, forgotten>>

-----------------------------------------------------------------------------
\* pruneCompletedIncoming() of the link of a request.
Old(p) == {i \in Over(p) : completed[i].old}
Pruned(p) == [i \in Requests |-> IF i \in Old(p) THEN NotCompleted ELSE completed[i]]
Forgets(p) == forgotten' = [i \in Requests |-> IF i \in Old(p) THEN forgotten[i] + 1 ELSE forgotten[i]]

Kept(c, p) == {i \in Over(p) : c[i].kind # "none"}
Running(p) == active \cap Over(p)
Bytes(c, ids) == MapThenSumSet(LAMBDA i : c[i].size, ids)

\* Mutant: the tombstones that running handlers will need are not counted.
CanReserveCompletedRequestNow(c, p) ==
    Cardinality(Kept(c, p)) < MaxCompleted /\ Bytes(c, Kept(c, p)) + 1 <= MaxCompletedBytes

\* canReserveCompletedRequest(): each running handler holds one tombstone's room.
CanReserveCompletedRequest(c, p) ==
    /\ Cardinality(Kept(c, p)) + Cardinality(Running(p)) < MaxCompleted
    /\ Bytes(c, Kept(c, p)) + Cardinality(Running(p)) + 1 <= MaxCompletedBytes

\* sendReply(): a reply that cannot be sent closes this end.
SendReply(kind, i, rest) ==
    \/ wire' = rest \cup {<<kind, i>>} /\ UNCHANGED <<closed, faults>>
    \/ Fault /\ wire' = rest /\ closed' = closed \cup {<<"answering", LinkOf[i]>>}

\* handleMessage() for a request frame, which may come again.
HandleRequest(i) ==
    LET p == LinkOf[i]
        c == Pruned(p)
        full == Cardinality(Running(p)) >= MaxInFlight \/ budget >= MaxInFlight
        admitted == i \notin active /\ c[i].kind = "none" /\ ~full /\ CanReserveCompletedRequest(c, p)
    IN  /\ <<"request", i>> \in wire /\ Connected("answering", p)
        /\ completed' = c /\ Forgets(p)
        /\ \/ /\ i \in active /\ wire' = wire \ {<<"request", i>>}
              /\ UNCHANGED <<closed, active, budget, runs, faults>>
           \/ /\ i \notin active /\ c[i].kind # "none"
              /\ SendReply(c[i].kind, i, wire \ {<<"request", i>>})
              /\ UNCHANGED <<active, budget, runs>>
           \/ /\ i \notin active /\ c[i].kind = "none" /\ ~admitted
              /\ SendReply("refused", i, wire \ {<<"request", i>>}) /\ UNCHANGED <<active, budget, runs>>
           \/ /\ admitted /\ active' = active \cup {i} /\ budget' = budget + 1
              /\ runs' = [runs EXCEPT ![i] = @ + 1]
              /\ wire' = wire \ {<<"request", i>>} /\ UNCHANGED <<closed, faults>>
           \/ /\ admitted /\ Fault /\ closed' = closed \cup {<<"answering", p>>}
              /\ wire' = wire \ {<<"request", i>>} /\ UNCHANGED <<active, budget, runs>>
    /\ UNCHANGED at

\* A frame is delivered once more.
Repeat(i) ==
    /\ at[i] # "new" /\ at[i] # "unsent" /\ <<"request", i>> \notin wire /\ Fault
    /\ wire' = wire \cup {<<"request", i>>}
    /\ UNCHANGED <<at, closed, active, budget, completed, runs, forgotten>>

\* storeCompleted(), for the request's own reservation.
Fits(c, i, size) ==
    LET p == LinkOf[i]
        others == Kept(c, p) \ {i}
        waiting == Cardinality(Running(p) \ {i})
    IN  /\ Cardinality(others) + 1 + waiting <= MaxCompleted
        /\ Bytes(c, others) + size + waiting <= MaxCompletedBytes

\* rememberCompleted(): the answer, or a tombstone when it does not fit.
RememberCompleted(c, i, size, kind) ==
    IF size <= MaxCompletedBytes - Reserve /\ Fits(c, i, size)
    THEN [c EXCEPT ![i] = [kind |-> kind, size |-> size, old |-> FALSE]]
    ELSE IF Fits(c, i, 1) THEN [c EXCEPT ![i] = [kind |-> "gone", size |-> 1, old |-> FALSE]]
    ELSE c

\* The handler returns: the result is remembered and sent, the reservation released.
HandlerReturns(i, size, kind) ==
    LET p == LinkOf[i]
    IN  /\ i \in active /\ active' = active \ {i} /\ budget' = budget - 1
        /\ completed' = RememberCompleted(Pruned(p), i, size, kind) /\ Forgets(p)
        /\ IF Connected("answering", p) THEN SendReply(kind, i, wire) ELSE UNCHANGED <<wire, closed, faults>>
        /\ UNCHANGED <<at, runs>>

\* CompletedRequestTtlMs passes.
CompletedGrowsOld(i) ==
    /\ completed[i].kind # "none" /\ ~completed[i].old /\ Fault
    /\ completed' = [completed EXCEPT ![i].old = TRUE]
    /\ UNCHANGED <<at, wire, closed, active, budget, runs, forgotten>>

-----------------------------------------------------------------------------
\* handleMessage() for a result; one nobody waits for is dropped.
HandleResult(i, kind) ==
    /\ <<kind, i>> \in wire /\ wire' = wire \ {<<kind, i>>} /\ Connected("asking", LinkOf[i])
    /\ at' = IF at[i] # "pending" THEN at
             ELSE [at EXCEPT ![i] = IF kind = "ok" THEN "resolved" ELSE "rejected"]
    /\ UNCHANGED <<closed, active, budget, completed, runs, forgotten, faults>>

\* close() of an end, by itself or because the other has closed.
Close(side, p) ==
    /\ Connected(side, p)
    /\ IF \E s \in {"asking", "answering"} : <<s, p>> \in closed THEN UNCHANGED faults ELSE Fault
    /\ closed' = closed \cup {<<side, p>>}
    /\ at' = IF side = "asking" THEN Rejected(p) ELSE at
    /\ UNCHANGED <<wire, active, budget, completed, runs, forgotten>>

Next == \/ \E i \in Requests : \/ Request(i) \/ RequestTimesOut(i) \/ HandleRequest(i) \/ Repeat(i)
                               \/ CompletedGrowsOld(i)
                               \/ HandlerReturns(i, 1, "error") \/ \E size \in Sizes : HandlerReturns(i, size, "ok")
                               \/ \E kind \in {"ok", "error", "refused", "gone"} : HandleResult(i, kind)
        \/ \E side \in {"asking", "answering"}, p \in Peers : Close(side, p)

Spec == Init /\ [][Next]_vars

-----------------------------------------------------------------------------
\* A request's handler is not run a second time while its completion has not aged out,
\* however often its frame comes and however full the cache of completed requests is: an
\* admitted request has always room for its tombstone (canReserveCompletedRequest,
\* rememberCompleted).
RunsOnce == \A i \in Requests : runs[i] <= 1 + forgotten[i]
=============================================================================
