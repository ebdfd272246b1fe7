--------------------------- MODULE SrpcConnection ---------------------------
(* SRPC over WebSocket: SrpcClient (connection generations, reconnection,    *)
(* request queue) and SrpcServer (stream registry, ordered activation,       *)
(* request admission), joined by connections that keep frames in order until *)
(* they break.  Every client of the model uses the same client ID, the case  *)
(* in which streams conflict with and supersede each other.  Frames carry no *)
(* payload; HELLO_ACK, PING and PONG only refresh liveness and are left out. *)
(* A frame for a side that has dropped the connection is discarded at once:  *)
(* every handler returns early for it.                                       *)
EXTENDS Naturals, Sequences, FiniteSets, SequencesExt

CONSTANTS Clients,        \* SrpcClient objects that share one client ID
          ClientCalls,    \* request IDs invoked by a client: numbers, ordered as UUIDv7
          ServerCalls,    \* request IDs invoked by the server
          MaxConns,       \* bound on WebSockets ever created
          MaxFaults,      \* bound on faults and interventions: loss, refusal, overflow,
                          \* expiry, closing, a connect() or disconnect() at any moment
          MaxQueued,      \* maxPendingClientRequests
          MaxInFlight,    \* maxInFlightClientRequests, maxInFlightServerRequests
          MaxWaiting,     \* maxPendingRequests, maxPendingServerRequests
          Acks            \* TRUE for protocol v4 (request acknowledgments)

ASSUME SrpcAssumption ==
    /\ Clients # {}
    /\ ClientCalls \subseteq Nat \ {0} /\ ServerCalls \subseteq Nat \ {0}
    /\ ClientCalls \cap ServerCalls = {}
    /\ MaxConns \in Nat /\ MaxFaults \in Nat
    /\ MaxQueued \in Nat /\ MaxInFlight \in Nat /\ MaxWaiting \in Nat
    /\ Acks \in BOOLEAN

Conns == 1..MaxConns
Calls == ClientCalls \cup ServerCalls

VARIABLES
    client,     \* per SrpcClient: WebSocket, phase, reconnection state, tombstones
    net,        \* per connection: owner, supersede flag, health, frames each way
    stream,     \* per connection: the server's SrpcStream
    reg,        \* pendingStreamsByClientId and streamsByClientId (0: none)
    call,       \* per request: outcome, connection, how often its handler started
    faults,     \* faults and interventions so far
    expired,    \* tombstones that expired or were evicted
    blamed      \* requests whose reply or receipt closed a connection as unknown
                \* (0: a limit did)

vars == <<client, net, stream, reg, call, faults, expired, blamed>>

Init == /\ client = [c \in Clients |-> [conn |-> 0, phase |-> "idle", enable |-> TRUE, timer |-> FALSE,
                                        established |-> FALSE, running |-> {}, unacked |-> {}, late |-> {}]]
        /\ net = [k \in Conns |-> [owner |-> CHOOSE c \in Clients : TRUE, supersede |-> FALSE,
                                   health |-> "unused", c2s |-> <<>>, s2c |-> <<>>]]
        /\ stream = [k \in Conns |-> [stage |-> "none", queue |-> <<>>, running |-> {}, acked |-> {}, late |-> {}]]
        /\ reg = [pending |-> 0, active |-> 0]
        /\ call = [q \in Calls |-> [st |-> "new", conn |-> 0, runs |-> 0]]
        /\ faults = 0 /\ expired = {} /\ blamed = {}

-----------------------------------------------------------------------------
(* Frames, and the two registries.                                           *)

Msg(t, q) == [t |-> t, q |-> q, cause |-> "-"]
Close(why) == [t |-> "close", q |-> 0, cause |-> why]

\* Neither registered yet nor revoked, registered, or revoked (lastPingAt < 0).
Registered == {"check", "handlers", "activated", "open"}
Live(k) == stream[k].stage \in Registered

\* getCurrentStreamByClientId(), and isStreamDispatchAvailable().
Current == IF reg.pending # 0 THEN reg.pending ELSE reg.active
Dispatchable(k) == Live(k) /\ Current = k

OnSocket(c, k) == client[c].conn = k
Owner(k) == net[k].owner
Writable(c) == client[c].phase \in {"open", "activating", "connected"}

Up(n, k, m) == IF n[k].health = "ok" /\ stream[k].stage # "revoked"
               THEN [n EXCEPT ![k].c2s = Append(@, m)] ELSE n
Down(n, k, m) == IF n[k].health = "ok" /\ OnSocket(Owner(k), k)
                 THEN [n EXCEPT ![k].s2c = Append(@, m)] ELSE n
PopUp(k) == [net EXCEPT ![k].c2s = Tail(@)]
PopDown(k) == [net EXCEPT ![k].s2c = Tail(@)]

\* $queue of a stream and requestQueue of a client, as sets of request IDs.
Waiting(k, Q) == {q \in Q : call[q].st = "sent" /\ call[q].conn = k}
Set(q, s) == [call EXCEPT ![q].st = s]
Abandon(Q) == [q \in Calls |-> IF q \in Q THEN [call[q] EXCEPT !.st = "indeterminate"] ELSE call[q]]

CanFault == faults < MaxFaults
Fault == CanFault /\ faults' = faults + 1

-----------------------------------------------------------------------------
(* SrpcClient.  An attempt owns its WebSocket and its generation together:   *)
(* isCurrent(ws, generation) is client[c].conn = k.                          *)

StartGeneration(c, supersede) ==
    LET old == client[c].conn
        k == Cardinality({i \in Conns : net[i].health # "unused"}) + 1
        dropped == IF old = 0 THEN {} ELSE Waiting(old, ClientCalls)
        left == IF old = 0 THEN net ELSE [Up(net, old, Close("supersede")) EXCEPT ![old].s2c = <<>>]
    IN  /\ k \in Conns
        /\ client' = [client EXCEPT ![c] = [client[c] EXCEPT !.conn = k, !.phase = "opening", !.timer = FALSE,
                                    !.running = {}, !.unacked = {}, !.late = @ \cup dropped]]
        /\ net' = [left EXCEPT ![k] = [owner |-> c, supersede |-> supersede, health |-> "ok",
                                       c2s |-> <<>>, s2c |-> <<>>]]
        /\ stream' = [stream EXCEPT ![k].stage = "auth"]
        /\ call' = Abandon(dropped)
        /\ UNCHANGED <<reg, expired, blamed>>

\* connect({ supersede }), called by the application in any phase.
connect(c, supersede) == /\ IF client[c].phase = "idle" THEN UNCHANGED faults ELSE Fault
                         /\ StartGeneration(c, supersede)

\* The timer of queueReconnect().
queueReconnectFires(c) == /\ client[c].timer
                /\ StartGeneration(c, client[c].established)
                /\ UNCHANGED faults

\* Mutant: only a connection that was established is reconnected.
revokeGenerationIfConnected(c, cause, suppress, n) ==
    LET k == client[c].conn IN
    /\ client' = [client EXCEPT ![c] = [client[c] EXCEPT !.conn = 0, !.running = {}, !.unacked = {},
                     !.phase = IF cause = "conflict" THEN "conflict" ELSE "closed",
                     !.timer = @ \/ (client[c].enable /\ ~suppress /\ client[c].phase = "connected"),
                     !.late = @ \cup Waiting(k, ClientCalls)]]
    /\ net' = [n EXCEPT ![k].s2c = <<>>]
    /\ call' = Abandon(Waiting(k, ClientCalls))
    /\ UNCHANGED <<stream, reg, expired>>

\* revokeGeneration(): the phase says why a client does not reconnect.
revokeGeneration(c, cause, suppress, n) ==
    LET k == client[c].conn
        dropped == Waiting(k, ClientCalls)
    IN  /\ client' = [client EXCEPT ![c] = [client[c] EXCEPT !.conn = 0, !.running = {}, !.unacked = {},
                         !.phase = IF cause = "conflict" THEN "conflict" ELSE "closed",
                         !.timer = @ \/ (client[c].enable /\ ~suppress),
                         !.late = @ \cup dropped]]
        /\ net' = [n EXCEPT ![k].s2c = <<>>]
        /\ call' = Abandon(dropped)
        /\ UNCHANGED <<stream, reg, expired>>

\* disconnect(); a client without a socket only stops its timer.
disconnect(c) ==
    /\ client[c].enable \/ client[c].conn # 0
    /\ Fault
    /\ LET k == client[c].conn
           gone == [client[c] EXCEPT !.conn = 0, !.running = {}, !.unacked = {}, !.enable = FALSE, !.timer = FALSE,
                                     !.phase = IF k = 0 THEN @ ELSE "closed",
                                     !.late = IF k = 0 THEN @ ELSE @ \cup Waiting(k, ClientCalls)]
       IN  /\ client' = [client EXCEPT ![c] = gone]
           /\ net' = IF k = 0 THEN net ELSE [Up(net, k, Close("disconnect")) EXCEPT ![k].s2c = <<>>]
           /\ call' = IF k = 0 THEN call ELSE Abandon(Waiting(k, ClientCalls))
    /\ UNCHANGED <<stream, reg, expired, blamed>>

\* The connect timeout of connect(); ws.close() sends no application code.
ConnectTimeout(c) ==
    /\ client[c].phase \in {"opening", "open", "activating"}
    /\ Fault
    /\ revokeGeneration(c, "timeout", FALSE, Up(net, client[c].conn, Close("disconnect")))
    /\ UNCHANGED blamed

\* handleClose()/handleError() for a lost socket or a refused upgrade.
ClientLosesSocket(c) ==
    /\ client[c].conn # 0
    /\ net[client[c].conn].health = "broken" \/ stream[client[c].conn].stage = "refused"
    /\ revokeGeneration(c, "disconnect", FALSE, net)
    /\ UNCHANGED <<faults, blamed>>

\* doPingPong() misses the pongs of a lost connection before its socket reports it.
PongTimeout(c) ==
    /\ client[c].phase = "connected" /\ net[client[c].conn].health = "broken"
    /\ revokeGeneration(c, "timeout", FALSE, net)
    /\ UNCHANGED <<faults, blamed>>

\* The 101 response makes the socket writable.
SocketOpens(c) ==
    /\ client[c].phase = "opening"
    /\ stream[client[c].conn].stage \notin {"auth", "refused"}
    /\ net[client[c].conn].health = "ok"
    /\ client' = [client EXCEPT ![c].phase = "open"]
    /\ UNCHANGED <<net, stream, reg, call, faults, expired, blamed>>

\* closeGenerationWithError(): q is the request, or the limit, that is to blame.
closeGenerationWithError(c, q) ==
    /\ revokeGeneration(c, "badArg", FALSE, Up(net, client[c].conn, Close("badArg")))
    /\ blamed' = blamed \cup {q}

\* The first frame must be a ping; HELLO is answered and activation awaited.
handleInitialHandshake(c, k) ==
    /\ client[c].phase = "open"
    /\ client' = [client EXCEPT ![c].phase = "activating"]
    /\ net' = PopDown(k)
    /\ UNCHANGED <<stream, reg, call, expired, blamed>>

\* ACTIVATED; from now on a reconnection supersedes.
completeConnection(c, k) ==
    /\ client[c].phase = "activating"
    /\ client' = [client EXCEPT ![c] = [client[c] EXCEPT !.phase = "connected", !.established = TRUE]]
    /\ net' = PopDown(k)
    /\ UNCHANGED <<stream, reg, call, expired, blamed>>

\* Admission of a server request, which the in-flight limits bound.
admitServerRequest(c, k, q) ==
    IF Cardinality(client[c].running) >= MaxInFlight
    THEN closeGenerationWithError(c, 0)
    ELSE /\ client' = [client EXCEPT ![c] = [client[c] EXCEPT !.running = @ \cup {q},
                                                 !.unacked = IF Acks THEN @ \cup {q} ELSE @]]
         /\ call' = [call EXCEPT ![q].runs = @ + 1]
         /\ net' = PopDown(k)
         /\ UNCHANGED <<stream, reg, expired, blamed>>

\* isLateReply(): an answer for a request that is known, or was until recently.
ClientKnows(c, k, q) == q \in Waiting(k, ClientCalls) \cup client[c].late

handleReply(c, k, q) ==
    IF ClientKnows(c, k, q)
    THEN /\ call' = IF q \in Waiting(k, ClientCalls) THEN Set(q, "result") ELSE call
         /\ net' = PopDown(k)
         /\ UNCHANGED <<client, stream, reg, expired, blamed>>
    ELSE closeGenerationWithError(c, q)

\* A receipt changes nothing, but it must be for a known request.
handleRequestAck(c, k, q) ==
    IF ClientKnows(c, k, q)
    THEN net' = PopDown(k) /\ UNCHANGED <<client, stream, reg, call, expired, blamed>>
    ELSE closeGenerationWithError(c, q)

\* handleClose(): a conflict suppresses reconnection.
handleClose(c, cause) ==
    /\ revokeGeneration(c, cause, cause = "conflict", net)
    /\ UNCHANGED blamed

\* handleMessage() of the current generation.
ClientReceives(c) ==
    /\ Writable(c)
    /\ net[client[c].conn].s2c # <<>>
    /\ UNCHANGED faults
    /\ LET k == client[c].conn
           m == Head(net[k].s2c)
       IN  \/ m.t = "close" /\ handleClose(c, m.cause)
           \/ m.t = "hello" /\ handleInitialHandshake(c, k)
           \/ m.t = "activated" /\ completeConnection(c, k)
           \/ m.t = "request" /\ admitServerRequest(c, k, m.q)
           \/ m.t = "reply" /\ handleReply(c, k, m.q)
           \/ m.t = "ack" /\ handleRequestAck(c, k, m.q)

\* handleServerRequest() ends and cancels the receipt; the reply is written on the
\* generation of the request.
handleServerRequestEnds(c, q) ==
    /\ q \in client[c].running
    /\ client' = [client EXCEPT ![c] = [client[c] EXCEPT !.running = @ \ {q}, !.unacked = @ \ {q}]]
    /\ net' = Up(net, client[c].conn, Msg("reply", q))
    /\ UNCHANGED <<stream, reg, call, faults, expired, blamed>>

\* scheduleRequestAcknowledgment(): the one receipt of a handler that takes long.
acknowledgeServerRequest(c, q) ==
    /\ q \in client[c].unacked
    /\ client' = [client EXCEPT ![c].unacked = @ \ {q}]
    /\ net' = Up(net, client[c].conn, Msg("ack", q))
    /\ UNCHANGED <<stream, reg, call, faults, expired, blamed>>

\* writeEncodedMessage(): an outgoing buffer over its limit, or a send that throws,
\* closes the generation and so rejects the request that was being written too.
ClientOverflows(c) ==
    /\ Writable(c) /\ Fault
    /\ closeGenerationWithError(c, 0)

\* Request IDs are drawn in order.
Fresh(q, Q) == call[q].st = "new" /\ \A p \in Q : p < q => call[p].st # "new"

\* Mutant: a request written before activation is reported as not sent.
ClientInvokesEarly(c, q) ==
    /\ Fresh(q, ClientCalls) /\ client[c].phase # "idle"
    /\ call' = IF client[c].phase = "connected"
               THEN [call EXCEPT ![q] = [call[q] EXCEPT !.st = "sent", !.conn = client[c].conn]] ELSE Set(q, "refused")
    /\ net' = IF Writable(c) THEN Up(net, client[c].conn, Msg("request", q)) ELSE net
    /\ UNCHANGED <<client, stream, reg, faults, expired, blamed>>

\* invoke(): refused without a writable socket, or over the limit of waiting requests.
ClientInvokes(c, q) ==
    /\ Fresh(q, ClientCalls)
    /\ \/ /\ client[c].phase # "idle"
          /\ ~Writable(c) \/ Cardinality(Waiting(client[c].conn, ClientCalls)) >= MaxWaiting
          /\ call' = Set(q, "refused")
          /\ UNCHANGED <<client, net, stream, reg, faults, expired, blamed>>
       \/ /\ Writable(c) /\ Cardinality(Waiting(client[c].conn, ClientCalls)) < MaxWaiting
          /\ call' = [call EXCEPT ![q] = [call[q] EXCEPT !.st = "sent", !.conn = client[c].conn]]
          /\ net' = Up(net, client[c].conn, Msg("request", q))
          /\ UNCHANGED <<client, stream, reg, faults, expired, blamed>>

\* Mutant: no tombstone is left.
ClientCallTimesOutBare(c, q) ==
    /\ q \in Waiting(client[c].conn, ClientCalls) /\ client[c].conn # 0
    /\ call' = Set(q, "indeterminate")
    /\ UNCHANGED <<client, net, stream, reg, faults, expired, blamed>>

\* The timer of invoke().
ClientCallTimesOut(c, q) ==
    /\ q \in Waiting(client[c].conn, ClientCalls) /\ client[c].conn # 0
    /\ call' = Set(q, "indeterminate")
    /\ client' = [client EXCEPT ![c].late = @ \cup {q}]
    /\ UNCHANGED <<net, stream, reg, faults, expired, blamed>>

\* A tombstone outlives its 60 s, or 256 newer ones.
ClientTombstoneExpires(c, q) ==
    /\ q \in client[c].late /\ Fault
    /\ client' = [client EXCEPT ![c].late = @ \ {q}]
    /\ expired' = expired \cup {q}
    /\ UNCHANGED <<net, stream, reg, call, blamed>>

-----------------------------------------------------------------------------
(* SrpcServer.                                                               *)

Unregister(k) == [pending |-> IF reg.pending = k THEN 0 ELSE reg.pending,
                  active  |-> IF reg.active = k THEN 0 ELSE reg.active]
Revoked(k) == [stream[k] EXCEPT !.stage = "revoked", !.queue = <<>>, !.running = {}]

\* Mutant: a revoked stream leaves its socket open.
cleanupStreamSilently(k, cause, n, r) ==
    /\ stream' = [stream EXCEPT ![k] = Revoked(k)]
    /\ reg' = Unregister(k)
    /\ net' = [n EXCEPT ![k].c2s = <<>>]
    /\ call' = [q \in Calls |-> IF q \in Waiting(k, ServerCalls)
                               THEN [r[q] EXCEPT !.st = "indeterminate"] ELSE r[q]]
    /\ UNCHANGED <<client, expired>>

\* revokeStream() and the close frame of its callers; n and r are the network
\* and the calls as the rest of the step leaves them.
cleanupStream(k, cause, n, r) ==
    /\ stream' = [stream EXCEPT ![k] = Revoked(k)]
    /\ reg' = Unregister(k)
    /\ net' = [Down(n, k, Close(cause)) EXCEPT ![k].c2s = <<>>]
    /\ call' = [q \in Calls |-> IF q \in Waiting(k, ServerCalls)
                               THEN [r[q] EXCEPT !.st = "indeterminate"] ELSE r[q]]
    /\ UNCHANGED <<client, expired>>

\* verifyClient() refuses the upgrade (authentication, capacity).
verifyClientRefuses(k) ==
    /\ stream[k].stage = "auth" /\ Fault
    /\ stream' = [stream EXCEPT ![k].stage = "refused"]
    /\ UNCHANGED <<client, net, reg, call, expired, blamed>>

\* Mutant: the newer stream takes the client ID over without revoking the older one.
handleStreamEstablishedBlindly(k) ==
    /\ stream[k].stage = "auth" /\ net[k].health = "ok"
    /\ stream' = [stream EXCEPT ![k].stage = "check"]
    /\ reg' = [reg EXCEPT !.pending = k]
    /\ UNCHANGED <<client, net, call, faults, expired, blamed>>

\* Mutant: a conflicting stream is dropped without closing its socket.
handleStreamEstablishedMute(k) ==
    /\ stream[k].stage = "auth" /\ net[k].health = "ok"
    /\ IF Current # 0
       THEN stream' = [stream EXCEPT ![k].stage = "revoked"] /\ UNCHANGED reg
       ELSE stream' = [stream EXCEPT ![k].stage = "check"] /\ reg' = [reg EXCEPT !.pending = k]
    /\ UNCHANGED <<client, net, call, faults, expired, blamed>>

\* attachConnection() and handleStreamEstablished(): a stream of the same client ID
\* is superseded, or this one is closed as a conflict.
handleStreamEstablished(k) ==
    /\ stream[k].stage = "auth" /\ net[k].health = "ok"
    /\ UNCHANGED <<client, faults, expired, blamed>>
    /\ LET old == Current
           dropped == IF old = 0 THEN {} ELSE Waiting(old, ServerCalls)
       IN  IF old # 0 /\ ~net[k].supersede
           THEN /\ stream' = [stream EXCEPT ![k].stage = "revoked"]
                /\ net' = Down(net, k, Close("conflict"))
                /\ UNCHANGED <<reg, call>>
           ELSE /\ stream' = [i \in Conns |-> IF i = k THEN [stream[k] EXCEPT !.stage = "check"]
                                              ELSE IF i = old THEN Revoked(old) ELSE stream[i]]
                /\ net' = IF old = 0 THEN net
                          ELSE [Down(net, old, Close("supersede")) EXCEPT ![old].c2s = <<>>]
                /\ call' = Abandon(dropped)
                /\ reg' = [pending |-> k, active |-> IF reg.active = old THEN 0 ELSE reg.active]

\* postEstablishCheck() is answered: the message listener is installed and HELLO
\* is sent.  Connection handlers then run, awaited one after the other.
SendHello(k) ==
    /\ stream[k].stage = "check" /\ Dispatchable(k)
    /\ stream' = [stream EXCEPT ![k].stage = "handlers"]
    /\ net' = Down(net, k, Msg("hello", 0))
    /\ UNCHANGED <<client, reg, call, faults, expired, blamed>>

\* onStreamConnected() is done: activateStream() and ACTIVATED.
activateStream(k) ==
    /\ stream[k].stage = "handlers" /\ Dispatchable(k)
    /\ stream' = [stream EXCEPT ![k].stage = "activated"]
    /\ reg' = [pending |-> 0, active |-> k]
    /\ net' = Down(net, k, Msg("activated", 0))
    /\ UNCHANGED <<client, call, faults, expired, blamed>>

\* A connection handler throws.
ActivationFails(k) ==
    /\ stream[k].stage = "handlers" /\ Fault
    /\ cleanupStream(k, "disconnect", net, call)
    /\ UNCHANGED blamed

\* The frames and the calls after the requests of S are dispatched on stream k.
Receipts(n, k, S) == IF Acks /\ n[k].health = "ok" /\ OnSocket(Owner(k), k)
                     THEN [n EXCEPT ![k].s2c = @ \o [i \in DOMAIN S |-> Msg("ack", S[i])]] ELSE n
Started(S) == [q \in Calls |-> IF q \in ToSet(S) THEN [call[q] EXCEPT !.runs = @ + 1] ELSE call[q]]

\* onStreamActivated() is done: openClientRequests() dispatches the queue, and the
\* request that exceeds maxInFlightClientRequests closes the stream.
openClientRequests(k) ==
    /\ stream[k].stage = "activated" /\ Dispatchable(k)
    /\ LET S == SubSeq(stream[k].queue, 1, IF Len(stream[k].queue) <= MaxInFlight THEN Len(stream[k].queue) ELSE MaxInFlight)
       IN  IF S = stream[k].queue
           THEN /\ stream' = [stream EXCEPT ![k] = [stream[k] EXCEPT !.stage = "open", !.queue = <<>>, !.running = ToSet(S)]]
                /\ call' = Started(S)
                /\ net' = Receipts(net, k, S)
                /\ UNCHANGED <<client, reg, expired, blamed>>
           ELSE /\ cleanupStream(k, "badArg", Receipts(net, k, S), Started(S))
                /\ blamed' = blamed \cup {0}
    /\ UNCHANGED faults

\* closeStreamWithError() as "badArg".
closeStreamWithError(k, q) == cleanupStream(k, "badArg", net, call) /\ blamed' = blamed \cup {q}

\* A client request before activation is queued; before SendHello there is no
\* message listener and the frame is lost.
queueClientRequest(k, q) ==
    IF stream[k].stage # "check" /\ Len(stream[k].queue) >= MaxQueued
    THEN closeStreamWithError(k, 0)
    ELSE /\ stream' = IF stream[k].stage = "check" THEN stream
                      ELSE [stream EXCEPT ![k].queue = Append(@, q)]
         /\ net' = PopUp(k)
         /\ UNCHANGED <<client, reg, call, expired, blamed>>

\* Afterwards it is acknowledged (v4) and dispatched within the in-flight limit.
dispatchClientRequest(k, q) ==
    IF Cardinality(stream[k].running) >= MaxInFlight
    THEN closeStreamWithError(k, 0)
    ELSE /\ stream' = [stream EXCEPT ![k].running = @ \cup {q}]
         /\ net' = Receipts(PopUp(k), k, <<q>>)
         /\ call' = Started(<<q>>)
         /\ UNCHANGED <<client, reg, expired, blamed>>

\* isLateReply() of the server.
ServerKnows(k, q) == q \in Waiting(k, ServerCalls) \cup stream[k].late

receiveReply(k, q) ==
    IF ServerKnows(k, q)
    THEN /\ call' = IF q \in Waiting(k, ServerCalls) THEN Set(q, "result") ELSE call
         /\ net' = PopUp(k)
         /\ UNCHANGED <<client, stream, reg, expired, blamed>>
    ELSE closeStreamWithError(k, q)

receiveRequestAck(k, q) ==
    IF ServerKnows(k, q)
    THEN /\ stream' = [stream EXCEPT ![k].acked = @ \cup {q}]
         /\ net' = PopUp(k)
         /\ UNCHANGED <<client, reg, call, expired, blamed>>
    ELSE closeStreamWithError(k, q)

\* handleWsMessage() and handleStreamDataReceived().
ServerReceives(k) ==
    /\ Live(k) /\ net[k].c2s # <<>>
    /\ UNCHANGED faults
    /\ LET m == Head(net[k].c2s)
       IN  \/ m.t = "close" /\ cleanupStream(k, m.cause, net, call) /\ UNCHANGED blamed
           \/ m.t = "request" /\ stream[k].stage # "open" /\ queueClientRequest(k, m.q)
           \/ m.t = "request" /\ stream[k].stage = "open" /\ dispatchClientRequest(k, m.q)
           \/ m.t = "reply" /\ receiveReply(k, m.q)
           \/ m.t = "ack" /\ receiveRequestAck(k, m.q)

\* handleClientRequest() ends; the reply of a revoked stream is not written.
handleClientRequestEnds(k, q) ==
    /\ q \in stream[k].running
    /\ stream' = [stream EXCEPT ![k].running = @ \ {q}]
    /\ net' = Down(net, k, Msg("reply", q))
    /\ UNCHANGED <<client, reg, call, faults, expired, blamed>>

\* invokeWithRequestId() on a stream that a connection handler was given.
ServerInvokes(k, q) ==
    /\ Fresh(q, ServerCalls)
    /\ \/ /\ stream[k].stage = "revoked" \/ Cardinality(Waiting(k, ServerCalls)) >= MaxWaiting
          /\ call' = Set(q, "refused")
          /\ UNCHANGED net
       \/ /\ stream[k].stage \in {"handlers", "activated", "open"} /\ Dispatchable(k)
          /\ Cardinality(Waiting(k, ServerCalls)) < MaxWaiting
          /\ call' = [call EXCEPT ![q] = [call[q] EXCEPT !.st = "sent", !.conn = k]]
          /\ net' = Down(net, k, Msg("request", q))
    /\ UNCHANGED <<client, stream, reg, faults, expired, blamed>>

\* Its timer: a v4 stream that did not acknowledge the request is revoked.
ServerCallTimesOut(q) ==
    /\ call[q].st = "sent"
    /\ LET k == call[q].conn IN
       IF Acks /\ q \notin stream[k].acked
       THEN cleanupStream(k, "timeout", net, call)
       ELSE /\ call' = Set(q, "indeterminate")
            /\ stream' = [stream EXCEPT ![k].late = @ \cup {q}]
            /\ UNCHANGED <<client, net, reg, expired>>
    /\ UNCHANGED <<faults, blamed>>

ServerTombstoneExpires(k, q) ==
    /\ q \in stream[k].late /\ Live(k) /\ Fault
    /\ stream' = [stream EXCEPT ![k].late = @ \ {q}]
    /\ expired' = expired \cup {q}
    /\ UNCHANGED <<client, net, reg, call, blamed>>

\* disconnectClient() and stream.close().
closeStreamGracefully(k) ==
    /\ Live(k) /\ Fault
    /\ cleanupStream(k, "disconnect", net, call)
    /\ UNCHANGED blamed

\* The close event of a lost socket, or terminateInactiveStreams().
ServerLosesSocket(k) ==
    /\ Live(k) /\ net[k].health = "broken"
    /\ cleanupStream(k, "disconnect", net, call)
    /\ UNCHANGED <<faults, blamed>>

\* The network loses a connection with the frames it carried.
NetworkBreaks(k) ==
    /\ net[k].health = "ok" /\ Fault
    /\ net' = [net EXCEPT ![k] = [net[k] EXCEPT !.health = "broken", !.c2s = <<>>, !.s2c = <<>>]]
    /\ UNCHANGED <<client, stream, reg, call, expired, blamed>>

-----------------------------------------------------------------------------

ClientNext(c) ==
    \/ \E b \in BOOLEAN : connect(c, b)
    \/ queueReconnectFires(c) \/ disconnect(c) \/ ConnectTimeout(c) \/ ClientLosesSocket(c) \/ PongTimeout(c)
    \/ SocketOpens(c) \/ ClientReceives(c) \/ ClientOverflows(c)
    \/ \E q \in ServerCalls : handleServerRequestEnds(c, q) \/ acknowledgeServerRequest(c, q)
    \/ \E q \in ClientCalls : \/ ClientInvokes(c, q) \/ ClientCallTimesOut(c, q)
                              \/ ClientTombstoneExpires(c, q)

ServerNext(k) ==
    \/ verifyClientRefuses(k) \/ handleStreamEstablished(k) \/ SendHello(k) \/ activateStream(k) \/ ActivationFails(k)
    \/ openClientRequests(k) \/ ServerReceives(k) \/ ServerLosesSocket(k)
    \/ closeStreamGracefully(k)
    \/ \E q \in ClientCalls : handleClientRequestEnds(k, q)
    \/ \E q \in ServerCalls : ServerInvokes(k, q) \/ ServerTombstoneExpires(k, q)

Next == \/ \E c \in Clients : ClientNext(c)
        \/ \E k \in Conns : ServerNext(k) \/ NetworkBreaks(k)
        \/ \E q \in ServerCalls : ServerCallTimesOut(q)

\* Frames of a healthy connection arrive, both ends notice a lost one, connection
\* handlers return, and the timers of invoke() fire.
Fairness ==
    /\ \A c \in Clients : /\ WF_vars(SocketOpens(c)) /\ WF_vars(ClientReceives(c))
                          /\ WF_vars(ClientLosesSocket(c))
                          /\ \A q \in ClientCalls : WF_vars(ClientCallTimesOut(c, q))
    /\ \A k \in Conns : WF_vars(handleStreamEstablished(k)) /\ WF_vars(SendHello(k)) /\ WF_vars(activateStream(k))
    /\ \A q \in ServerCalls : WF_vars(ServerCallTimesOut(q))

Spec == Init /\ [][Next]_vars /\ Fairness

-----------------------------------------------------------------------------
(* Properties.                                                               *)

TypeOK ==
    /\ \A c \in Clients :
          /\ client[c].conn \in 0..MaxConns
          /\ client[c].phase \in {"idle", "closed", "conflict", "opening", "open", "activating", "connected"}
          /\ client[c].conn = 0 <=> client[c].phase \in {"idle", "closed", "conflict"}
    /\ \A k \in Conns : stream[k].stage \in Registered \cup {"none", "auth", "refused", "revoked"}
    /\ reg.pending \in 0..MaxConns /\ reg.active \in 0..MaxConns
    /\ faults \in 0..MaxFaults

(* A stream that is still in streamsById is the current stream of its client *)
(* ID, in the map that fits its stage: however connections, supersessions and *)
(* activations interleave, no live stream is one that the server can neither *)
(* find nor write to (isStreamDispatchAvailable).                            *)
EveryLiveStreamIsCurrent ==
    \A k \in Conns :
       /\ Live(k) => Current = k
       /\ stream[k].stage \in {"check", "handlers"} <=> reg.pending = k
       /\ stream[k].stage \in {"activated", "open"} <=> reg.active = k

(* A client that considers itself connected is published by the server, unless *)
(* the connection is lost or the news that it ended is already on its way: a  *)
(* client is never left connected to a stream that the server gave up silently. *)
ConnectedIsPublished ==
    \A c \in Clients :
       LET k == client[c].conn IN
       (client[c].phase = "connected" /\ net[k].health = "ok")
          => reg.active = k \/ \E i \in DOMAIN net[k].s2c : net[k].s2c[i].t = "close"

(* A client whose connection ended for any reason but a conflict, and that was *)
(* not told to stop, has a reconnection timer: no order of closes, errors,   *)
(* timeouts and connect() calls leaves it stranded.                          *)
NeverStranded ==
    \A c \in Clients : client[c].phase = "closed" /\ client[c].enable => client[c].timer

(* A peer that follows the protocol is not disconnected for an unknown request *)
(* ID: a late reply or receipt always finds its request or its tombstone, as *)
(* long as tombstones live.                                                  *)
LateAnswersAreForgiven == blamed \ {0} \subseteq expired

(* Every connection attempt ends: the client becomes connected, or learns    *)
(* that it is not.                                                           *)
AttemptsEnd ==
    \A c \in Clients : client[c].phase \in {"opening", "open", "activating"}
                          ~> client[c].phase \in {"connected", "closed", "conflict"}

(* Invocations keep the promise of CallContract: "timeout" and "disconnected" *)
(* are one outcome to a caller, and an error reply is a result.              *)
Contract == INSTANCE CallContract WITH status <- [q \in Calls |-> call[q].st],
                                       runs <- [q \in Calls |-> call[q].runs]
ImplementsCallContract == Contract!Spec
=============================================================================
