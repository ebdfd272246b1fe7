--------------------------- MODULE MeshSrpcHandles --------------------------
(* Remote handles of MeshSrpcLinkController: a requester resolves a client    *)
(* that another node owns, gets a capability for it, and opens byte streams    *)
(* through it.  Requests may be late, overtake each other, or lose their       *)
(* answer; either side may end the handle; the peer link may close.  Each      *)
(* handle has one sender ID, one issued sender and one attached receiver.      *)
EXTENDS Naturals, FiniteSets

CONSTANTS Handles,   \* capabilities, one per resolution
          MaxConns,  \* bound on the client's connections at the owner
          MaxFaults  \* bound on lost answers, failed lookups and closed links

VARIABLES
    conn,        \* the client's current connection at the owner, 0 when it has none
    closing,     \* connections whose invalidateConnection() is still queued
    owner,       \* per capability, at the owner: [res, handle, route, terminal, grant, attached]
    invoking,    \* capabilities with an invokeLocal() under way
    forwards,    \* terminalForwards: <<type, capability>>
    remote,      \* per capability, at the requester: [at, conn, invalidated]
    cleanup,     \* cleanupMarkers
    tombstones,  \* revokedRemoteCapabilities
    closedOwner, \* closedOwnerIdentities has the owner
    closed,      \* the requester's controller is closed
    wire,        \* requests under way: <<type, capability>>
    faults

ownerSide == <<conn, closing, owner, invoking, forwards>>
requester == <<remote, cleanup, tombstones, closedOwner, closed>>
vars == <<ownerSide, requester, wire, faults>>

Free == [res |-> "none", handle |-> FALSE, route |-> "none", terminal |-> FALSE, grant |-> FALSE, attached |-> FALSE]
Unused == [at |-> "none", conn |-> 0, invalidated |-> FALSE]

Init == /\ conn = 1 /\ closing = {} /\ owner = [c \in Handles |-> Free]
        /\ invoking = {} /\ forwards = {}
        /\ remote = [c \in Handles |-> Unused] /\ cleanup = {} /\ tombstones = {}
        /\ closedOwner = FALSE /\ closed = FALSE /\ wire = {} /\ faults = 0

Fault == faults < MaxFaults /\ faults' = faults + 1
\* A request's answer may be lost.
Answers == {TRUE} \cup (IF faults < MaxFaults THEN {FALSE} ELSE {})
Spend(answered) == faults' = IF answered THEN faults ELSE faults + 1
Goto(c, at) == [remote EXCEPT ![c].at = at]

-----------------------------------------------------------------------------
(* The requester.                                                             *)

\* rememberCleanup(): not for an owner whose link has closed.
Remember(cs) == cleanup' = IF closedOwner THEN cleanup ELSE cleanup \cup cs

\* resolveRegisteredClient() and the first request of createRemoteConnection().
Resolve(c) ==
    /\ remote[c].at = "none" /\ conn # 0 /\ ~closed
    /\ \A d \in Handles : remote[d].at \in {"none", "ended"}
    /\ remote' = [remote EXCEPT ![c] = [at |-> "reserving", conn |-> conn, invalidated |-> FALSE]]
    /\ closedOwner' = FALSE
    /\ wire' = wire \cup {<<"reserve", c>>}
    /\ UNCHANGED <<ownerSide, cleanup, tombstones, closed, faults>>

\* retryReservation(), or its second failure: only a confirmation leaves a cleanup behind.
ReserveTimesOut(c) ==
    /\ remote[c].at \in {"reserving", "confirming"} /\ Fault
    /\ LET type == IF remote[c].at = "reserving" THEN "reserve" ELSE "confirm"
       IN  \/ wire' = wire \cup {<<type, c>>} /\ UNCHANGED <<remote, cleanup>>
           \/ /\ remote' = Goto(c, "ended") /\ UNCHANGED wire
              /\ IF type = "confirm" THEN Remember({c}) ELSE UNCHANGED cleanup
    /\ UNCHANGED <<ownerSide, tombstones, closedOwner, closed>>

\* The rest of createRemoteConnection(): the registry is read again; a failing read
\* leaves the capability to its idle timeout.
CheckCurrent(c) ==
    /\ remote[c].at = "checking"
    /\ \/ /\ remote[c].conn = conn /\ ~closed /\ ~remote[c].invalidated
          /\ remote' = Goto(c, "live") /\ UNCHANGED <<cleanup, faults>>
       \/ /\ remote[c].conn # conn \/ closed \/ remote[c].invalidated
          /\ remote' = Goto(c, "ended") /\ Remember({c}) /\ UNCHANGED faults
       \/ Fault /\ remote' = Goto(c, "ended") /\ UNCHANGED cleanup
    /\ UNCHANGED <<ownerSide, tombstones, closedOwner, closed, wire>>

Uses == {"invoke", "activate", "finish", "destroy", "attach"}

\* assertCurrent() and requestOwner(): the registry still names this generation.
StillCurrent(c) == remote[c].at = "live" /\ remote[c].conn = conn

\* invoke(), activateSender(), finishStream(), destroyStream() and attachReceiver(),
\* one at a time.
Use(c, type) ==
    /\ StillCurrent(c)
    /\ type = "attach" => owner[c].grant
    /\ type = "activate" => owner[c].route = "reserved"
    /\ type \in {"finish", "destroy"} => owner[c].route = "active"
    /\ \A m \in wire : m[1] \notin Uses
    /\ wire' = wire \cup {<<type, c>>}
    /\ UNCHANGED <<ownerSide, requester, faults>>

\* invalidate(): the handle was idle, was closed, or its record or activation is gone.
Invalidate(c) ==
    /\ remote[c].at = "live" /\ remote' = Goto(c, "ended") /\ Remember({c})
    /\ UNCHANGED <<ownerSide, tombstones, closedOwner, closed, wire, faults>>

\* invalidateClientConnections() and invalidateOtherGenerations(): a resolution under way
\* is not to be used.
InvalidateResolution(c) ==
    /\ remote[c].at \in {"reserving", "confirming", "checking"} /\ remote[c].conn # conn
    /\ ~remote[c].invalidated /\ remote' = [remote EXCEPT ![c].invalidated = TRUE]
    /\ UNCHANGED <<ownerSide, cleanup, tombstones, closedOwner, closed, wire, faults>>

\* closeInternal(), until its drains.
Close ==
    /\ ~closed /\ closed' = TRUE
    /\ LET live == {c \in Handles : remote[c].at = "live"}
       IN  /\ remote' = [c \in Handles |-> IF c \in live THEN [remote[c] EXCEPT !.at = "ended"]
                                           ELSE [remote[c] EXCEPT !.invalidated = TRUE]]
           /\ Remember(live)
    /\ tombstones' = {}
    /\ UNCHANGED <<ownerSide, closedOwner, wire, faults>>

\* releaseReservation() with closeCapability.
ReleaseReservation(c) == <<"release", c>> \notin wire /\ wire' = wire \cup {<<"release", c>>}

\* retryCleanupMarker(): the capability is closed at the owner.
RetryCleanupMarker(c) ==
    /\ c \in cleanup /\ ReleaseReservation(c)
    /\ UNCHANGED <<ownerSide, requester, faults>>

-----------------------------------------------------------------------------
(* The owner.                                                                 *)

\* reserveRoute(): once per reservation ID; refused for a connection that is gone.
ReserveRoute(c) ==
    /\ <<"reserve", c>> \in wire /\ wire' = wire \ {<<"reserve", c>>}
    /\ LET ok == owner[c].res # "none" \/ conn = remote[c].conn
       IN  \E answered \in Answers :
           /\ Spend(answered)
           /\ owner' = IF ok /\ owner[c].res = "none"
                       THEN [owner EXCEPT ![c].res = "provisional", ![c].route = "reserved"] ELSE owner
           /\ IF ~answered \/ remote[c].at # "reserving" THEN UNCHANGED remote
              ELSE remote' = Goto(c, IF ok THEN "reserved" ELSE "ended")
    /\ UNCHANGED <<conn, closing, invoking, forwards, cleanup, tombstones, closedOwner, closed>>

\* The requester has the IDs and confirms them.
SendConfirm(c) ==
    /\ remote[c].at = "reserved" /\ remote' = Goto(c, "confirming")
    /\ wire' = wire \cup {<<"confirm", c>>}
    /\ UNCHANGED <<ownerSide, cleanup, tombstones, closedOwner, closed, faults>>

\* confirmReservation().
ConfirmReservation(c) ==
    /\ <<"confirm", c>> \in wire /\ wire' = wire \ {<<"confirm", c>>}
    /\ LET ok == owner[c].res # "none"
       IN  \E answered \in Answers :
           /\ Spend(answered)
           /\ owner' = IF ok THEN [owner EXCEPT ![c].res = "confirmed", ![c].handle = TRUE] ELSE owner
           /\ IF ~answered \/ remote[c].at # "confirming" THEN UNCHANGED <<remote, cleanup>>
              ELSE /\ remote' = Goto(c, IF ok THEN "checking" ELSE "ended")
                   /\ IF ok THEN UNCHANGED cleanup ELSE Remember({c})
    /\ UNCHANGED <<conn, closing, invoking, forwards, tombstones, closedOwner, closed>>

\* removeHandleCapability(): everything the capability holds goes with it.
Removed(c) == [owner EXCEPT ![c] = Free]

\* closeHandleCapability(): a capability that is not there is as good as closed.
CloseHandleCapability(c) ==
    /\ <<"release", c>> \in wire /\ wire' = wire \ {<<"release", c>>}
    /\ owner' = IF owner[c].handle THEN Removed(c) ELSE owner
    /\ \E answered \in Answers : Spend(answered) /\ cleanup' = IF answered THEN cleanup \ {c} ELSE cleanup
    /\ UNCHANGED <<conn, closing, invoking, forwards, remote, tombstones, closedOwner, closed>>

\* assertLocalStreamOwnership(): the connection the handle was made for is the current one.
LocalStreamOwned(c) == conn = remote[c].conn

\* assertFrameCapability().
Admitted(c) == owner[c].handle /\ LocalStreamOwned(c)

\* rememberTerminalSenderRoute(): a finished stream may still be destroyed by the client.
Terminal(c, type) == [owner EXCEPT ![c].route = "none", ![c].terminal = type = "finish"]

\* streamActivate, streamFinish and streamDestroy of the requester's own stream.
RouteStream(c, type) ==
    /\ <<type, c>> \in wire /\ wire' = wire \ {<<type, c>>}
    /\ \E answered \in Answers :
       /\ Spend(answered)
       /\ owner' = IF ~Admitted(c) \/ owner[c].route = "none" THEN owner
                   ELSE IF type = "activate" THEN [owner EXCEPT ![c].route = "active", ![c].terminal = FALSE]
                   ELSE Terminal(c, type)
       /\ IF type = "activate" /\ remote[c].at = "live" /\ ~(answered /\ Admitted(c) /\ owner[c].route # "none")
          THEN remote' = Goto(c, "ended") /\ Remember({c}) ELSE UNCHANGED <<remote, cleanup>>
    /\ UNCHANGED <<conn, closing, invoking, forwards, tombstones, closedOwner, closed>>

\* invoke: the client's handler runs, and its answer issues a sender to the handle.
RouteInvoke(c) ==
    /\ <<"invoke", c>> \in wire /\ wire' = wire \ {<<"invoke", c>>}
    /\ invoking' = IF Admitted(c) THEN invoking \cup {c} ELSE invoking
    /\ UNCHANGED <<conn, closing, owner, forwards, requester, faults>>

\* Mutant: the handle is not looked up again when the handler has returned.
GrantIssuedSenderIdsUnchecked(c) ==
    /\ c \in invoking /\ invoking' = invoking \ {c}
    /\ owner' = [owner EXCEPT ![c].grant = TRUE]
    /\ UNCHANGED <<conn, closing, forwards, requester, wire, faults>>

\* grantIssuedSenderIds(): the issued stream of a handle that is gone is destroyed.
GrantIssuedSenderIds(c) ==
    /\ c \in invoking /\ invoking' = invoking \ {c}
    /\ owner' = IF owner[c].handle THEN [owner EXCEPT ![c].grant = TRUE] ELSE owner
    /\ UNCHANGED <<conn, closing, forwards, requester, wire, faults>>

\* assertIssuedSenderGrant(): the stream was issued to this handle.
IssuedTo(c) == owner[c].grant

\* streamAttach: attachLocalReceiver().
AttachLocalReceiver(c) ==
    /\ <<"attach", c>> \in wire /\ wire' = wire \ {<<"attach", c>>}
    /\ owner' = IF Admitted(c) /\ IssuedTo(c) /\ ~owner[c].attached
                THEN [owner EXCEPT ![c].grant = FALSE, ![c].attached = TRUE] ELSE owner
    /\ UNCHANGED <<conn, closing, invoking, forwards, requester, faults>>

\* The attached receiver ends: the requester is told until it answers.
ReceiverEnds(c) ==
    /\ owner[c].attached /\ owner' = [owner EXCEPT ![c].attached = FALSE]
    /\ forwards' = forwards \cup {<<"finish", c>>}
    /\ UNCHANGED <<conn, closing, invoking, requester, wire, faults>>

\* forwardClientDestroy(): the client destroys the requester's stream.
ForwardClientDestroy(c) ==
    /\ owner[c].route # "none" \/ owner[c].terminal
    /\ owner' = [owner EXCEPT ![c].route = "none", ![c].terminal = FALSE]
    /\ forwards' = forwards \cup {<<"destroy", c>>}
    /\ UNCHANGED <<conn, closing, invoking, requester, wire, faults>>

\* isCapabilityActive(): a stream of the handle keeps it from growing old.
CapabilityActive(c) == owner[c].route = "active" \/ owner[c].attached \/ owner[c].grant

\* abandonRoute(): the reservation and the sender route it held.
Abandoned(c) == [owner EXCEPT ![c].res = "none", ![c].route = "none"]

\* abandonIssuedSenderGrant().
Ungranted(c) == [owner EXCEPT ![c].grant = FALSE]

\* pruneReservations(): provisional reservations, grants, terminal routes and idle handles.
PruneReservations(c) ==
    /\ \/ owner[c].res = "provisional"
          /\ owner' = Abandoned(c) /\ UNCHANGED forwards
       \/ owner[c].res = "confirmed" /\ owner' = [owner EXCEPT ![c].res = "none"] /\ UNCHANGED forwards
       \/ owner[c].grant /\ owner' = Ungranted(c) /\ UNCHANGED forwards
       \/ owner[c].terminal /\ owner' = [owner EXCEPT ![c].terminal = FALSE] /\ UNCHANGED forwards
       \/ /\ owner[c].handle /\ ~CapabilityActive(c)
          /\ owner' = Removed(c) /\ forwards' = forwards \cup {<<"revoke", c>>}
    /\ UNCHANGED <<conn, closing, invoking, requester, wire, faults>>

\* The client's connection closes, perhaps replaced by another.
ConnectionCloses ==
    /\ conn # 0 /\ closing' = closing \cup {conn}
    /\ conn' \in {0} \cup (IF conn < MaxConns THEN {conn + 1} ELSE {})
    /\ UNCHANGED <<owner, invoking, forwards, requester, wire, faults>>

\* Mutant: handles of the connection are dropped without a word to their holders.
InvalidateConnectionUntold(k) ==
    /\ k \in closing /\ closing' = closing \ {k}
    /\ owner' = [c \in Handles |-> IF remote[c].conn = k THEN Free ELSE owner[c]]
    /\ UNCHANGED <<conn, invoking, forwards, requester, wire, faults>>

\* invalidateConnection(), deleteSenderRoutes().
InvalidateConnection(k) ==
    /\ k \in closing /\ closing' = closing \ {k}
    /\ LET gone == {c \in Handles : remote[c].conn = k}
       IN  /\ owner' = [c \in Handles |-> IF c \in gone THEN Free ELSE owner[c]]
           /\ forwards' = forwards \cup {<<"revoke", c>> : c \in {d \in gone : owner[d].handle}}
    /\ UNCHANGED <<conn, invoking, requester, wire, faults>>

\* assertCapabilityRevocation(): the requester still has the handle, a cleanup of it or a
\* tombstone of an earlier revocation.
RevocationKnown(c) == remote[c].at = "live" \/ c \in cleanup \/ c \in tombstones

\* acceptCapabilityRevocation(): once, and remembered for the retries of the owner.
AcceptRevocation(c) ==
    /\ remote' = IF remote[c].at = "live" THEN Goto(c, "ended") ELSE remote
    /\ cleanup' = cleanup \ {c} /\ tombstones' = tombstones \cup {c}

\* retryTerminalForward(), and what the requester does with it: receiveFinish() and
\* receiveDestroy(), or the revocation.  What nobody has authority for is refused, and
\* tried again.
RetryTerminalForward(f) ==
    /\ f \in forwards /\ ~closed
    /\ remote[f[2]].at = "live" \/ (f[1] = "revoke" /\ RevocationKnown(f[2]))
    /\ \E answered \in Answers : Spend(answered) /\ forwards' = IF answered THEN forwards \ {f} ELSE forwards
    /\ IF f[1] = "revoke" THEN AcceptRevocation(f[2]) ELSE UNCHANGED <<remote, cleanup, tombstones>>
    /\ UNCHANGED <<conn, closing, owner, invoking, closedOwner, closed, wire>>

\* The link closes: by itself, because a forward or a cleanup was not answered in time,
\* or because the requester's close ends with a cleanup left.
PeerClosed ==
    /\ \/ Fault
       \/ (\E f \in forwards : remote[f[2]].at \notin {"reserving", "reserved", "confirming", "checking"}) /\ UNCHANGED faults
       \/ cleanup # {} /\ UNCHANGED faults
    /\ closedOwner' = TRUE /\ cleanup' = {} /\ tombstones' = {} /\ forwards' = {} /\ wire' = {}
    /\ owner' = [c \in Handles |-> Free]
    /\ remote' = [c \in Handles |-> IF remote[c].at = "none" THEN Unused
                                    ELSE [remote[c] EXCEPT !.at = "ended"]]
    /\ UNCHANGED <<conn, closing, invoking, closed>>

-----------------------------------------------------------------------------
Progress == \E c \in Handles :
                \/ CheckCurrent(c) \/ SendConfirm(c) \/ RetryCleanupMarker(c)
                \/ ReserveRoute(c) \/ ConfirmReservation(c) \/ CloseHandleCapability(c)
                \/ RouteInvoke(c) \/ GrantIssuedSenderIds(c) \/ AttachLocalReceiver(c)
                \/ \E type \in {"activate", "finish", "destroy"} : RouteStream(c, type)

Timers == \/ \E c \in Handles : PruneReservations(c)
          \/ \E f \in forwards : RetryTerminalForward(f)
          \/ PeerClosed

Invalidations == \E k \in closing : InvalidateConnection(k)

Next == \/ Progress \/ Timers \/ ConnectionCloses \/ Close
        \/ Invalidations
        \/ \E c \in Handles : \/ Resolve(c) \/ ReserveTimesOut(c) \/ Invalidate(c) \/ InvalidateResolution(c)
                              \/ ReceiverEnds(c) \/ ForwardClientDestroy(c)
                              \/ \E type \in Uses : Use(c, type)

\* Requests arrive, timers fire, and queued invalidations run.
Fairness == WF_vars(Progress) /\ WF_vars(Timers) /\ WF_vars(Invalidations)

Spec == Init /\ [][Next]_vars /\ Fairness

-----------------------------------------------------------------------------
\* At the owner every sender route, issued sender and attached receiver belongs to a
\* capability or to a reservation that can still expire, whatever requests come late or
\* twice and whoever ends the handle: nothing of a handle outlives it
\* (removeHandleCapability, grantIssuedSenderIds, pruneReservations).
NothingOutlivesItsHandle ==
    \A c \in Handles :
        /\ owner[c].route # "none" => owner[c].handle \/ owner[c].res # "none"
        /\ owner[c].grant \/ owner[c].attached => owner[c].handle

\* The two ends agree in the end: a capability the requester no longer holds is removed at
\* the owner, and a handle whose capability is gone does not stay in use
\* (retryCleanupMarker, queueTerminalForward, closePinnedPeer).
Disagree(c) == \/ owner[c].handle /\ remote[c].at = "ended"
               \/ remote[c].at = "live" /\ ~owner[c].handle
EndsAgree == \A c \in Handles : []<>~Disagree(c)
=============================================================================
