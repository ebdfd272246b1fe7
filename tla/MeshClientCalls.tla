-------------------------- MODULE MeshClientCalls ---------------------------
(* The operations of MeshClientService on a client that any node of the mesh  *)
(* may own: updateClientMetadata(), invoke() and disconnectClient().  Each     *)
(* reads the registry, works on the local stream or asks the owner over the    *)
(* mesh link, and answers; meanwhile the client moves to other connections     *)
(* and nodes, and nodes lose their lease.                                      *)
(*                                                                            *)
(* A node is "up", "lapsed" (its lease has run out and it has not noticed: only *)
(* assertLeaseSafe() fails) or "down" (streams fenced, service not running); it *)
(* comes back under another instance ID, here its generation.  How connections *)
(* are claimed and handed over is MeshClientOwnership.                         *)
EXTENDS Naturals

CONSTANTS Nodes, Calls,
          MaxConns,  \* bound on the connections of the client
          MaxLapses  \* bound on lost leases

VARIABLES
    phase, generation, \* per node
    stream,            \* per node: its connection in streamsByClientId, 0 for none
    home,              \* per connection: node and generation
    record,            \* the connection the registry names, 0 for none
    claimed,           \* connections whose claim was committed
    pc,                \* per call: "idle", "reading", "read", "writing", "written", "asking", "done"
    task,              \* per call, at the owner: "none", "client", "write", "written", "check", "checked", "answered"
    ask,               \* per call: [kind, node, want], the connection wanted, 0 for any
    since, seen, target, ok, \* per call: its generation, registry answer, fenced connection, last answer
    result,            \* per call: "none", "true", "false"
    effects,           \* history: what was done to which connection for which call
    lapses

vars == <<phase, generation, stream, home, record, claimed, pc, task, ask, since, seen, target, ok, result, effects,
          lapses>>
nodes == <<phase, generation, stream, home, record, claimed, lapses>>
asked == <<ask, since, seen, target>>

Connections == 1..MaxConns
Requests == [kind : {"metadata", "invoke", "disconnect"}, node : Nodes, want : 0..MaxConns]
Kind(c) == ask[c].kind
Caller(c) == ask[c].node
Want(c) == ask[c].want
Established == {k \in Connections : home[k] # <<>>}

Init == /\ phase = [n \in Nodes |-> "up"] /\ generation = [n \in Nodes |-> 1]
        /\ stream = [n \in Nodes |-> 0] /\ home = [k \in Connections |-> <<>>] /\ record = 0 /\ claimed = {}
        /\ pc = [c \in Calls |-> "idle"] /\ task = [c \in Calls |-> "none"]
        /\ ask = [c \in Calls |-> [kind |-> "none", node |-> 0, want |-> 0]]
        /\ since = [c \in Calls |-> 0] /\ seen = since /\ target = since
        /\ ok = [c \in Calls |-> FALSE] /\ result = [c \in Calls |-> "none"]
        /\ effects = {} /\ lapses = 0

-----------------------------------------------------------------------------
(* The client and the nodes.                                                  *)

\* The client connects to a node, where the stream replaces an earlier one.
Connect(n) ==
    /\ phase[n] = "up"
    /\ \E k \in Connections \ Established :
           /\ \A j \in Connections \ Established : k <= j
           /\ stream' = [stream EXCEPT ![n] = k] /\ home' = [home EXCEPT ![k] = <<n, generation[n]>>]
    /\ UNCHANGED <<phase, generation, record, claimed, pc, task, asked, ok, result, effects, lapses>>

\* The previous owner is fenced, unless its lease is over; then the claim is committed.
Register(n) ==
    /\ phase[n] = "up" /\ stream[n] \notin claimed \cup {0}
    /\ record' = stream[n] /\ claimed' = claimed \cup {stream[n]}
    /\ stream' = [m \in Nodes |-> IF m # n /\ stream[m] = record /\ phase[m] = "up" THEN 0 ELSE stream[m]]
    /\ UNCHANGED <<phase, generation, home, pc, task, asked, ok, result, effects, lapses>>

\* The stream ends, and is unregistered.
Disconnect(n) ==
    /\ stream[n] # 0 /\ stream' = [stream EXCEPT ![n] = 0]
    /\ UNCHANGED <<phase, generation, home, record, claimed, pc, task, asked, ok, result, effects, lapses>>
Unregister ==
    /\ record # 0 /\ stream[home[record][1]] # record
    /\ record' = 0
    /\ UNCHANGED <<phase, generation, stream, home, claimed, pc, task, asked, ok, result, effects, lapses>>

Lapse(n) ==
    /\ phase[n] = "up" /\ lapses < MaxLapses
    /\ phase' = [phase EXCEPT ![n] = "lapsed"] /\ lapses' = lapses + 1
    /\ UNCHANGED <<generation, stream, home, record, claimed, pc, task, asked, ok, result, effects>>

\* onLeaseLost(): every local stream is fenced at once.
LeaseLost(n) ==
    /\ phase[n] = "lapsed"
    /\ phase' = [phase EXCEPT ![n] = "down"] /\ stream' = [stream EXCEPT ![n] = 0]
    /\ generation' = [generation EXCEPT ![n] = @ + 1]
    /\ UNCHANGED <<home, record, claimed, pc, task, asked, ok, result, effects, lapses>>

DoStart(n) ==
    /\ phase[n] = "down" /\ phase' = [phase EXCEPT ![n] = "up"]
    /\ UNCHANGED <<generation, stream, home, record, claimed, pc, task, asked, ok, result, effects, lapses>>

-----------------------------------------------------------------------------
(* The calls.                                                                 *)

IsOwnershipGenerationSafe(c) == phase[Caller(c)] = "up" /\ since[c] = generation[Caller(c)]

Running(c) == phase[Caller(c)] # "down"

Here(c, k) == home[k] = <<Caller(c), generation[Caller(c)]>>

\* What is done for a call, and whether the registry names the connection at that moment.
Effect(c, k, what) == effects' = effects \cup {[call |-> c, conn |-> k, what |-> what, named |-> record = k]}

Return(c, v) == pc' = [pc EXCEPT ![c] = "done"] /\ result' = [result EXCEPT ![c] = IF v THEN "true" ELSE "false"]

Start(c) ==
    /\ pc[c] = "idle" /\ pc' = [pc EXCEPT ![c] = "reading"]
    /\ \E r \in Requests :
           /\ phase[r.node] # "down" /\ (r.kind = "disconnect" => phase[r.node] = "up")
           /\ ask' = [ask EXCEPT ![c] = r] /\ since' = [since EXCEPT ![c] = generation[r.node]]
    /\ UNCHANGED <<nodes, task, seen, target, ok, result, effects>>

\* registry.getClient()
GetClient(c) ==
    /\ pc[c] = "reading"
    /\ pc' = [pc EXCEPT ![c] = "read"] /\ seen' = [seen EXCEPT ![c] = record]
    /\ UNCHANGED <<nodes, task, ask, since, target, ok, result, effects>>

Fenced(c) == IF Want(c) # 0 THEN Want(c) ELSE seen[c]

\* A remote owner is asked for the connection that was observed.
Ask(c) ==
    /\ pc' = [pc EXCEPT ![c] = "asking"] /\ target' = [target EXCEPT ![c] = Fenced(c)]
    /\ UNCHANGED <<nodes, task, ask, since, seen, ok, result, effects>>

Fails(c) == Return(c, FALSE) /\ UNCHANGED <<nodes, task, asked, ok, effects>>

UpdateClientMetadata(c) ==
    /\ Kind(c) = "metadata" /\ pc[c] = "read"
    /\ IF seen[c] = 0 \/ ~IsOwnershipGenerationSafe(c) THEN Fails(c)
       ELSE IF Here(c, seen[c])
            THEN IF stream[Caller(c)] # Fenced(c) THEN Fails(c)
                 ELSE /\ pc' = [pc EXCEPT ![c] = "writing"] /\ target' = [target EXCEPT ![c] = Fenced(c)]
                      /\ UNCHANGED <<nodes, task, ask, since, seen, ok, result, effects>>
       ELSE IF Fenced(c) # seen[c] THEN Fails(c) ELSE Ask(c)

\* The registry writes for the connection it names only.
WriteMetadata(c) ==
    /\ ok' = [ok EXCEPT ![c] = record = target[c]]
    /\ IF record = target[c] THEN Effect(c, target[c], "write") ELSE UNCHANGED effects

UpdateMetadata(c) ==
    /\ pc[c] = "writing" /\ pc' = [pc EXCEPT ![c] = "written"]
    /\ WriteMetadata(c)
    /\ UNCHANGED <<nodes, task, asked, result>>

\* Mutant: the live stream is changed although the lease may be over.
ApplyClientMetadataAnyway(c) ==
    /\ pc[c] = "written"
    /\ IF ok[c] /\ stream[Caller(c)] = target[c]
       THEN Effect(c, target[c], "apply") /\ Return(c, TRUE) /\ UNCHANGED <<nodes, task, asked, ok>>
       ELSE Fails(c)
ApplyClientMetadata(c) ==
    /\ pc[c] = "written"
    /\ IF ok[c] /\ IsOwnershipGenerationSafe(c) /\ stream[Caller(c)] = target[c]
       THEN Effect(c, target[c], "apply") /\ Return(c, TRUE) /\ UNCHANGED <<nodes, task, asked, ok>>
       ELSE Fails(c)

\* The client is invoked, and answers or fails.
Invoke(c) ==
    /\ Kind(c) = "invoke" /\ pc[c] = "read"
    /\ IF ~Running(c) \/ seen[c] = 0 \/ Fenced(c) # seen[c] THEN Fails(c)
       ELSE IF Here(c, seen[c])
            THEN IF phase[Caller(c)] # "up" \/ stream[Caller(c)] # seen[c] THEN Fails(c)
                 ELSE /\ Effect(c, seen[c], "deliver") /\ target' = [target EXCEPT ![c] = seen[c]]
                      /\ \E v \in BOOLEAN : Return(c, v)
                      /\ UNCHANGED <<nodes, task, ask, since, seen, ok>>
       ELSE Ask(c)

\* handleClientSuperseded(): the exact stream, wherever it still is in streamsById.
DisconnectClient(c) ==
    /\ Kind(c) = "disconnect" /\ pc[c] = "read"
    /\ IF ~IsOwnershipGenerationSafe(c) \/ seen[c] = 0 \/ Fenced(c) # seen[c] THEN Fails(c)
       ELSE IF Here(c, seen[c])
            THEN /\ target' = [target EXCEPT ![c] = seen[c]]
                 /\ IF stream[Caller(c)] = seen[c]
                    THEN Effect(c, seen[c], "close") /\ stream' = [stream EXCEPT ![Caller(c)] = 0]
                    ELSE UNCHANGED <<stream, effects>>
                 /\ Return(c, TRUE) /\ UNCHANGED <<phase, generation, home, record, claimed, lapses, task, ask, since, seen, ok>>
       ELSE Ask(c)

\* The owner's answer, which the caller compares with its generation before it reports a disconnect.
Answered(c) ==
    /\ pc[c] = "asking" /\ task[c] = "answered"
    /\ Return(c, ok[c] /\ (Kind(c) = "disconnect" => IsOwnershipGenerationSafe(c)))
    /\ UNCHANGED <<nodes, task, asked, ok, effects>>

\* withinClientDeadline(), or a link that fails: the owner may still run the request.
GiveUp(c) == /\ pc[c] = "asking" \/ (Kind(c) = "invoke" /\ pc[c] = "reading")
             /\ Fails(c)

-----------------------------------------------------------------------------
(* The owner.                                                                 *)

OwnerOf(c) == home[target[c]][1]
OwnerSafe(c) == phase[OwnerOf(c)] = "up" /\ generation[OwnerOf(c)] = home[target[c]][2]
Answer(c, v) == task' = [task EXCEPT ![c] = "answered"] /\ ok' = [ok EXCEPT ![c] = v]

\* Mutant: the client is looked up without the connection that was asked for.
RouteAnyConnection(c) ==
    /\ task[c] = "none" /\ target[c] # 0 /\ OwnerOf(c) # Caller(c) /\ pc[c] \in {"asking", "done"}
    /\ LET m == OwnerOf(c) IN
       /\ OwnerSafe(c)
       /\ \/ /\ Kind(c) = "metadata" /\ stream[m] # 0
             /\ task' = [task EXCEPT ![c] = "write"] /\ UNCHANGED <<nodes, ok, effects>>
          \/ /\ Kind(c) = "invoke" /\ stream[m] # 0
             /\ Effect(c, stream[m], "deliver") /\ task' = [task EXCEPT ![c] = "client"] /\ UNCHANGED <<nodes, ok>>
          \/ /\ Kind(c) = "disconnect" /\ stream[m] = target[c]
             /\ Effect(c, target[c], "close") /\ stream' = [stream EXCEPT ![m] = 0]
             /\ Answer(c, TRUE) /\ UNCHANGED <<phase, generation, home, record, claimed, lapses>>
          \/ /\ Kind(c) = "disconnect" /\ stream[m] # target[c]
             /\ task' = [task EXCEPT ![c] = "check"] /\ UNCHANGED <<nodes, ok, effects>>
          \/ /\ Kind(c) # "disconnect" /\ stream[m] = 0
             /\ Answer(c, FALSE) /\ UNCHANGED <<nodes, effects>>
    /\ UNCHANGED <<pc, asked, result>>

\* route(), once the peer's membership is verified: clientInvoke, fenceClient, clientUpdateMetadata.
Route(c) ==
    /\ task[c] = "none" /\ target[c] # 0 /\ OwnerOf(c) # Caller(c) /\ pc[c] \in {"asking", "done"}
    /\ LET m == OwnerOf(c) IN
       /\ OwnerSafe(c)
       /\ \/ /\ Kind(c) = "metadata" /\ stream[m] = target[c]
             /\ task' = [task EXCEPT ![c] = "write"] /\ UNCHANGED <<nodes, ok, effects>>
          \/ /\ Kind(c) = "invoke" /\ stream[m] = target[c]
             /\ Effect(c, target[c], "deliver") /\ task' = [task EXCEPT ![c] = "client"] /\ UNCHANGED <<nodes, ok>>
          \/ /\ Kind(c) = "disconnect" /\ stream[m] = target[c]
             /\ Effect(c, target[c], "close") /\ stream' = [stream EXCEPT ![m] = 0]
             /\ Answer(c, TRUE) /\ UNCHANGED <<phase, generation, home, record, claimed, lapses>>
          \/ /\ Kind(c) = "disconnect" /\ stream[m] # target[c]
             /\ task' = [task EXCEPT ![c] = "check"] /\ UNCHANGED <<nodes, ok, effects>>
          \/ /\ Kind(c) # "disconnect" /\ stream[m] # target[c]
             /\ Answer(c, FALSE) /\ UNCHANGED <<nodes, effects>>
    /\ UNCHANGED <<pc, asked, result>>

\* The client's answer, or its failure, sent on while the lease is safe.
ClientAnswers(c) ==
    /\ task[c] = "client" /\ \E v \in BOOLEAN : Answer(c, v /\ OwnerSafe(c))
    /\ UNCHANGED <<nodes, pc, asked, result, effects>>

\* The owner of a fence that finds no stream looks the client up in the registry.
Absent(c) ==
    /\ task[c] = "check" /\ Kind(c) = "disconnect"
    /\ Answer(c, record # target[c] \/ home[record] # <<OwnerOf(c), generation[OwnerOf(c)]>>)
    /\ UNCHANGED <<nodes, pc, asked, result, effects>>

\* updateLocalMetadata(): the registry is written, read again, and the stream changed.
UpdateLocalMetadata(c) ==
    \/ /\ task[c] = "write" /\ task' = [task EXCEPT ![c] = "written"]
       /\ WriteMetadata(c) /\ UNCHANGED <<nodes, pc, asked, result>>
    \/ /\ task[c] = "written"
       /\ IF ok[c] THEN task' = [task EXCEPT ![c] = "check"] /\ UNCHANGED ok ELSE Answer(c, FALSE)
       /\ UNCHANGED <<nodes, pc, asked, result, effects>>
    \/ /\ task[c] = "check" /\ Kind(c) = "metadata"
       /\ task' = [task EXCEPT ![c] = "checked"] /\ ok' = [ok EXCEPT ![c] = record = target[c]]
       /\ UNCHANGED <<nodes, pc, asked, result, effects>>

\* assertCurrentMeshStream() returns; the answer follows if the lease is still safe.
AssertCurrentMeshStream(c) ==
    /\ task[c] = "checked"
    /\ IF ok[c] /\ stream[OwnerOf(c)] = target[c]
       THEN Effect(c, target[c], "assign") /\ Answer(c, OwnerSafe(c))
       ELSE Answer(c, FALSE) /\ UNCHANGED effects
    /\ UNCHANGED <<nodes, pc, asked, result>>

Next ==
    \/ \E n \in Nodes : Connect(n) \/ Register(n) \/ Disconnect(n) \/ Lapse(n) \/ LeaseLost(n) \/ DoStart(n)
    \/ Unregister
    \/ \E c \in Calls : \/ Start(c) \/ GetClient(c) \/ UpdateClientMetadata(c) \/ UpdateMetadata(c) \/ ApplyClientMetadata(c)
                        \/ Invoke(c) \/ DisconnectClient(c) \/ Answered(c) \/ GiveUp(c)
                        \/ Route(c) \/ ClientAnswers(c) \/ Absent(c) \/ UpdateLocalMetadata(c) \/ AssertCurrentMeshStream(c)

Spec == Init /\ [][Next]_vars

-----------------------------------------------------------------------------
\* An operation reaches the connection its caller asked for or saw in the registry and no
\* other, and invokes, closes, writes or changes it only while the registry names it: not after
\* the client moved on, although its old stream may still exist on a node whose lease is over
\* (updateClientMetadata, invoke, disconnectClient, route).  An owner that loses its lease
\* between its second reading of the registry and its answer is left out ("assign"): it still
\* changes its own stream, and answers with an error.
OperationsAreFenced ==
    \A e \in effects : /\ e.conn = target[e.call] /\ Want(e.call) \in {0, e.conn}
                       /\ e.what # "assign" => e.named

\* What is reported is real: metadata reported as updated was written and applied, a
\* successful invocation ran, and the connection of a reported disconnect is nowhere left.
Did(c, whats) == \E e \in effects : e.call = c /\ e.what \in whats
ReportsAreReal ==
    \A c \in Calls : result[c] = "true" =>
        /\ Kind(c) = "metadata" => Did(c, {"write"}) /\ Did(c, {"apply", "assign"})
        /\ Kind(c) = "invoke" => Did(c, {"deliver"})
        /\ Kind(c) = "disconnect" => \A n \in Nodes : stream[n] # target[c]
=============================================================================
