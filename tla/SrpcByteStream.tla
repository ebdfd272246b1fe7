--------------------------- MODULE SrpcByteStream ---------------------------
(* Byte streams multiplexed over one SRPC connection: the client's senders   *)
(* (SrpcByteStream with id 0), the server's receivers, the data that arrives *)
(* before its receiver is created, and the two-way destroy signal.  The other *)
(* direction is the mirror image.  A chunk is a number and counts one byte,  *)
(* and so does the retained reason of a destroy.                             *)
EXTENDS Naturals, Sequences, FiniteSets, FiniteSetsExt, SequencesExt

CONSTANTS Ids,            \* substream IDs the client allocates
          MaxWrites,      \* bound on chunks written to one substream
          MaxFrames,      \* bound on writes on their way
          HighWater,      \* readable high-water mark of a receiver
          MaxPendingOne,  \* PENDING_RECEIVER_MAX_BYTES
          MaxPendingAll,  \* PENDING_RECEIVER_MAX_CHUNK_TOTAL_BYTES
          MaxPendingIds,  \* PENDING_RECEIVER_MAX_COUNT
          MaxFlagged,     \* MaxBackpressuredByteStreamsPerStream
          MaxBuffered,    \* MaxBackpressuredByteStreamBytesPerStream
          MaxTerminal     \* TERMINAL_SENDER_MAX_COUNT

VARIABLES
    sender,      \* client: "new", "open", "finished" or "gone", per ID
    terminal,    \* client: terminalSenders
    written,     \* client: chunks written, per ID
    receiver,    \* server: [st, buf, fin] per ID; st is "none", "open" or "gone"
    pending,     \* server: pendingReceivers, [on, chunks, reason, fin, destroyed] per ID
    bytes,       \* server: pendingReceiverBytes and pendingReceiverChunkBytes
    flagged,     \* server: backpressuredByteStreams
    up, down,    \* frames to the server and to the client
    link,        \* "open", or why the connection was closed
    got,         \* chunks the application read, per ID
    expired      \* IDs whose pending data timed out

vars == <<sender, terminal, written, receiver, pending, bytes, flagged, up, down, link, got, expired>>
client == <<sender, terminal, written>>
server == <<receiver, pending, bytes, flagged, got, expired>>

NoPending == [on |-> FALSE, chunks |-> <<>>, reason |-> 0, fin |-> FALSE, destroyed |-> FALSE]

Init == /\ sender = [i \in Ids |-> "new"] /\ terminal = {} /\ written = [i \in Ids |-> 0]
        /\ receiver = [i \in Ids |-> [st |-> "none", buf |-> <<>>, fin |-> FALSE]]
        /\ pending = [i \in Ids |-> NoPending]
        /\ bytes = [all |-> 0, chunks |-> 0] /\ flagged = {}
        /\ up = <<>> /\ down = <<>> /\ link = "open"
        /\ got = [i \in Ids |-> <<>>] /\ expired = {}

Frame(op, i, n) == [op |-> op, id |-> i, chunk |-> n]

-----------------------------------------------------------------------------
(* Client: the sending half of a substream.                                  *)

createSender(i) ==
    /\ link = "open" /\ sender[i] = "new"
    /\ \A j \in Ids : j < i => sender[j] # "new"
    /\ Cardinality(terminal) < MaxTerminal
    /\ sender' = [sender EXCEPT ![i] = "open"]
    /\ UNCHANGED <<terminal, written, up, down, link, server>>

write(i) ==
    /\ link = "open" /\ sender[i] = "open" /\ written[i] < MaxWrites /\ Len(up) < MaxFrames
    /\ written' = [written EXCEPT ![i] = @ + 1]
    /\ up' = Append(up, Frame("write", i, written[i] + 1))
    /\ UNCHANGED <<sender, terminal, down, link, server>>

\* _final(): the ID is remembered, so that a destroy that crosses the finish is
\* recognised; without room for it the stream fails instead.
final(i) ==
    /\ link = "open" /\ sender[i] = "open"
    /\ IF Cardinality(terminal) < MaxTerminal
       THEN /\ sender' = [sender EXCEPT ![i] = "finished"]
            /\ terminal' = terminal \cup {i}
            /\ up' = Append(up, Frame("finish", i, 0))
       ELSE /\ sender' = [sender EXCEPT ![i] = "gone"]
            /\ up' = Append(up, Frame("destroy", i, 0))
            /\ UNCHANGED terminal
    /\ UNCHANGED <<written, down, link, server>>

\* _destroy() of a sender by its own side tells the receiver, and forgets the ID.
destroySender(i) ==
    /\ link = "open" /\ sender[i] = "open"
    /\ sender' = [sender EXCEPT ![i] = "gone"]
    /\ up' = Append(up, Frame("destroy", i, 0))
    /\ UNCHANGED <<terminal, written, down, link, server>>

\* TERMINAL_SENDER_TTL_MS is over.
TerminalExpires(i) ==
    /\ i \in terminal
    /\ terminal' = terminal \ {i}
    /\ UNCHANGED <<sender, written, up, down, link, server>>

\* validRemoteByteStreamOperation(): only a destroy may name a local sender, and
\* only one that is open or remembered.
validRemoteByteStreamOperation(i) == sender[i] = "open" \/ i \in terminal

\* handleByteStreamOperation() on the client.
ClientReceives ==
    /\ link = "open" /\ down # <<>>
    /\ LET i == Head(down).id IN
       IF ~validRemoteByteStreamOperation(i)
       THEN link' = "badArg" /\ UNCHANGED <<sender, terminal>>
       ELSE /\ terminal' = terminal \ {i}
            /\ sender' = IF i \in terminal THEN sender ELSE [sender EXCEPT ![i] = "gone"]
            /\ UNCHANGED link
    /\ down' = Tail(down)
    /\ UNCHANGED <<written, up, server>>

-----------------------------------------------------------------------------
(* Server: receivers, and data that waits for one.                           *)

Held(p) == Len(p.chunks) + p.reason
PendingIds == {i \in Ids : pending[i].on}

\* releasePendingReceiverBytes(), as the totals that remain.
Released(b, p) == [all |-> b.all - Held(p), chunks |-> b.chunks - Len(p.chunks)]

\* deletePendingReceiver().
deletePendingReceiver(i) ==
    /\ pending' = [pending EXCEPT ![i] = NoPending]
    /\ bytes' = Released(bytes, pending[i])

\* retainPendingDestroy(): the data is dropped, and a reason kept while there is
\* room for it.
retainPendingDestroy(i, reason) ==
    LET kept == IF bytes.all - Held(pending[i]) < MaxPendingAll + MaxPendingIds THEN reason ELSE 0
    IN  /\ pending' = [pending EXCEPT ![i] = [on |-> TRUE, chunks |-> <<>>, reason |-> kept,
                                             fin |-> @.fin, destroyed |-> TRUE]]
        /\ bytes' = [Released(bytes, pending[i]) EXCEPT !.all = @ + kept]

Gone(i) == [receiver EXCEPT ![i] = [st |-> "gone", buf |-> <<>>, fin |-> @.fin]]

\* Mutant: the retained chunks are dropped with their entry.
createReceiverUnflushed(i) ==
    /\ link = "open" /\ receiver[i].st = "none" /\ sender[i] # "new"
    /\ receiver' = [receiver EXCEPT ![i] = [st |-> "open", buf |-> <<>>, fin |-> pending[i].fin]]
    /\ deletePendingReceiver(i)
    /\ UNCHANGED <<flagged, up, down, link, got, expired, client>>

\* flushPendingReceiver(): a receiver takes over what was retained for it.
Flushed(i) == IF pending[i].destroyed THEN [st |-> "gone", buf |-> <<>>, fin |-> FALSE]
              ELSE [st |-> "open", buf |-> pending[i].chunks, fin |-> pending[i].fin]

\* createReceiver(): a sender's id that has no receiver yet.
createReceiver(i) ==
    /\ link = "open" /\ receiver[i].st = "none" /\ sender[i] # "new"
    /\ receiver' = [receiver EXCEPT ![i] = Flushed(i)]
    /\ deletePendingReceiver(i)
    /\ UNCHANGED <<flagged, up, down, link, got, expired, client>>

\* PENDING_RECEIVER_TTL_MS is over.
PendingExpires(i) ==
    /\ pending[i].on
    /\ deletePendingReceiver(i)
    /\ expired' = expired \cup {i}
    /\ UNCHANGED <<receiver, flagged, up, down, link, got, client>>

\* read(): the application takes a chunk, which clears its flag; the end of a
\* finished stream cleans the receiver up.
read(i) ==
    /\ receiver[i].st = "open"
    /\ \/ /\ receiver[i].buf = <<>> /\ receiver[i].fin
          /\ receiver' = Gone(i)
          /\ UNCHANGED <<got, flagged>>
       \/ /\ receiver[i].buf # <<>>
          /\ receiver' = [receiver EXCEPT ![i].buf = Tail(@)]
          /\ got' = [got EXCEPT ![i] = Append(@, Head(receiver[i].buf))]
          /\ flagged' = flagged \ {i}
    /\ UNCHANGED <<pending, bytes, up, down, link, expired, client>>

\* _destroy() of a receiver by its own side: the sender is told unless it finished,
\* and cleanup() reports an empty buffer.
destroyReceiver(i) ==
    /\ link = "open" /\ receiver[i].st = "open"
    /\ receiver' = Gone(i)
    /\ down' = IF receiver[i].fin THEN down ELSE Append(down, Frame("destroy", i, 0))
    /\ flagged' = IF receiver[i].buf = <<>> THEN flagged ELSE flagged \ {i}
    /\ UNCHANGED <<pending, bytes, up, link, got, expired, client>>

\* totalBackpressuredByteStreamBytes(), once a chunk was added for i.
Buffered(i) == 1 + MapThenSumSet(LAMBDA j : Len(receiver[j].buf), Ids)

\* handleByteSubstreamOperation(), a write to a receiver: push() refuses at the
\* high-water mark.  One that finds too many others flagged, or too much buffered,
\* is aborted.  (A sender never writes after its finish, so that branch is left out.)
WriteReceiver(i, n) ==
    /\ receiver[i].st = "open"
    /\ LET full  == Len(receiver[i].buf) + 1 >= HighWater
           abort == \/ full /\ i \notin flagged /\ Cardinality(flagged) >= MaxFlagged
                    \/ Buffered(i) > MaxBuffered
       IN  IF abort
           THEN /\ receiver' = Gone(i)
                /\ down' = Append(down, Frame("destroy", i, 0))
                /\ flagged' = flagged \ {i}
           ELSE /\ receiver' = [receiver EXCEPT ![i].buf = Append(@, n)]
                /\ flagged' = IF full THEN flagged \cup {i} ELSE flagged \ {i}
                /\ UNCHANGED down
    /\ UNCHANGED <<pending, bytes, link>>

\* getPendingReceiver() has an entry for i, or room for one.
Retainable(i) == pending[i].on \/ Cardinality(PendingIds) < MaxPendingIds

\* Mutant: the refused chunk's predecessors stay in the totals.
WritePendingLeaky(i, n) ==
    /\ receiver[i].st # "open" /\ Retainable(i)
    /\ LET p == pending[i]
           over == Len(p.chunks) + 1 > MaxPendingOne \/ bytes.chunks + 1 > MaxPendingAll
       IN  IF p.destroyed \/ p.fin \/ over
           THEN /\ pending' = [pending EXCEPT ![i] = [NoPending EXCEPT !.on = TRUE, !.destroyed = TRUE]]
                /\ UNCHANGED bytes
           ELSE /\ pending' = [pending EXCEPT ![i] = [p EXCEPT !.on = TRUE, !.chunks = Append(@, n)]]
                /\ bytes' = [all |-> bytes.all + 1, chunks |-> bytes.chunks + 1]
    /\ UNCHANGED <<receiver, down, link, flagged>>

\* writeReceiver() without a receiver: the chunk is retained within the limits; a
\* second refusal in a row tells the sender to stop.
WritePending(i, n) ==
    /\ receiver[i].st # "open" /\ Retainable(i)
    /\ LET p == pending[i]
           over == \/ Len(p.chunks) + 1 > MaxPendingOne \/ bytes.chunks + 1 > MaxPendingAll
                   \/ bytes.all + 1 > MaxPendingAll + MaxPendingIds
           refuse == p.destroyed \/ p.fin \/ over
       IN  /\ IF refuse
              THEN IF p.destroyed THEN UNCHANGED <<pending, bytes>> ELSE retainPendingDestroy(i, 1)
              ELSE /\ pending' = [pending EXCEPT ![i] = [p EXCEPT !.on = TRUE, !.chunks = Append(@, n)]]
                   /\ bytes' = [all |-> bytes.all + 1, chunks |-> bytes.chunks + 1]
           /\ IF refuse /\ (i \in flagged \/ Cardinality(flagged) >= MaxFlagged)
              THEN flagged' = flagged \ {i} /\ down' = Append(down, Frame("destroy", i, 0))
              ELSE flagged' = (IF refuse THEN flagged \cup {i} ELSE flagged \ {i}) /\ UNCHANGED down
    /\ UNCHANGED <<receiver, link>>

\* finishReceiver().
FinishReceiver(i) ==
    /\ flagged' = flagged \ {i}
    /\ IF receiver[i].st = "open"
       THEN /\ receiver' = [receiver EXCEPT ![i].fin = TRUE]
            /\ UNCHANGED pending
       ELSE /\ Retainable(i)
            /\ pending' = [pending EXCEPT ![i].on = TRUE, ![i].fin = @ \/ ~pending[i].destroyed]
            /\ UNCHANGED receiver
    /\ UNCHANGED <<bytes, down, link>>

\* Mutant: a destroy of a receiver with unread data is treated like a finish.
DestroySubstreamLazy(i, reason) ==
    /\ flagged' = flagged \ {i}
    /\ IF receiver[i].st = "open"
       THEN UNCHANGED <<receiver, pending, bytes>>
       ELSE Retainable(i) /\ retainPendingDestroy(i, reason) /\ UNCHANGED receiver
    /\ UNCHANGED <<down, link>>

\* destroySubstream(): the receiver is destroyed without an answer, or the destroy
\* waits for it.
DestroySubstream(i, reason) ==
    /\ flagged' = flagged \ {i}
    /\ IF receiver[i].st = "open"
       THEN receiver' = Gone(i) /\ UNCHANGED <<pending, bytes>>
       ELSE Retainable(i) /\ retainPendingDestroy(i, reason) /\ UNCHANGED receiver
    /\ UNCHANGED <<down, link>>

\* requirePendingReceiver() throws, and the message handler closes the connection.
TooManyPending(i) ==
    /\ receiver[i].st # "open" /\ ~Retainable(i)
    /\ link' = "badArg"
    /\ flagged' = IF Head(up).op = "write" THEN flagged ELSE flagged \ {i}
    /\ UNCHANGED <<receiver, pending, bytes, down>>

\* handleByteSubstreamOperation() on the server.
ServerReceives ==
    /\ link = "open" /\ up # <<>>
    /\ LET f == Head(up) IN
       \/ f.op = "write" /\ (WriteReceiver(f.id, f.chunk) \/ WritePending(f.id, f.chunk))
       \/ f.op = "finish" /\ FinishReceiver(f.id)
       \/ f.op = "destroy" /\ \E reason \in 0..1 : DestroySubstream(f.id, reason)
       \/ TooManyPending(f.id)
    /\ up' = Tail(up)
    /\ UNCHANGED <<client, got, expired>>

\* handleDisconnect(): every substream ends with its connection.
handleDisconnect ==
    /\ link # "open" /\ \E i \in Ids : receiver[i].st = "open"
    /\ receiver' = [i \in Ids |-> IF receiver[i].st = "open" THEN [st |-> "gone", buf |-> <<>>, fin |-> FALSE]
                                  ELSE receiver[i]]
    /\ UNCHANGED <<pending, bytes, flagged, up, down, link, got, expired, client>>

-----------------------------------------------------------------------------
Next == \/ \E i \in Ids : \/ createSender(i) \/ write(i) \/ final(i) \/ destroySender(i)
                          \/ TerminalExpires(i) \/ createReceiver(i) \/ PendingExpires(i)
                          \/ read(i) \/ destroyReceiver(i)
        \/ ClientReceives \/ ServerReceives \/ handleDisconnect

\* The connection delivers, the application reads what it opened, and a closed
\* connection ends its substreams.
Fairness == /\ WF_vars(ServerReceives) /\ WF_vars(ClientReceives) /\ WF_vars(handleDisconnect)
            /\ \A i \in Ids : WF_vars(read(i))

Spec == Init /\ [][Next]_vars /\ Fairness

-----------------------------------------------------------------------------
\* The running totals of retained data equal what the pending entries hold, and stay
\* within the limits (SrpcByteStream.writeReceiver, retainPendingDestroy): a leaked
\* byte would in the end refuse every early chunk of the connection.
PendingAccounting ==
    /\ bytes.all = MapThenSumSet(LAMBDA i : Held(pending[i]), Ids)
    /\ bytes.chunks = MapThenSumSet(LAMBDA i : Len(pending[i].chunks), Ids)
    /\ bytes.chunks <= MaxPendingAll /\ bytes.all <= MaxPendingAll + MaxPendingIds
    /\ Cardinality(PendingIds) <= MaxPendingIds

\* What the application reads is what was written, in order and without a gap,
\* whether it arrived before or after the receiver was created
\* (flushPendingReceiver), unless retained data timed out.
ReaderSeesPrefix ==
    \A i \in Ids \ expired :
        LET seen == got[i] \o receiver[i].buf IN seen = [k \in 1..Len(seen) |-> k] /\ Len(seen) <= written[i]

\* A receiver whose sender finished or was destroyed is released (_destroy, cleanup):
\* no application reads forever from a stream nobody writes.
LetGo(i) == receiver[i].st = "open" /\ sender[i] \in {"finished", "gone"} => i \in expired
ReceiverReleased == \A i \in Ids : []<>LetGo(i)

\* Endpoints that only use the API never violate the protocol, so a connection is
\* never closed as malformed on account of their substreams. The code does not keep this:
\* _destroy() forgets its sender (only _final() remembers one), so two destroys that cross
\* close the connection, and so does a frame for a receiver whose wait has run out.
NeverMalformed == link = "open"
=============================================================================
