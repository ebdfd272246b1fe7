------------------------ MODULE SrpcConnectionProofs ------------------------
(***************************************************************************)
(* Safety of the SRPC connection protocol, for any number of clients,      *)
(* connections, requests and faults.                                       *)
(***************************************************************************)
EXTENDS SrpcConnection, FiniteSetTheorems, SequenceTheorems, TLAPS

Phases == {"idle", "closed", "conflict", "opening", "open", "activating", "connected"}
Stages == Registered \cup {"none", "auth", "refused", "revoked"}
Causes == {"-", "supersede", "conflict", "disconnect", "badArg", "timeout"}
Statuses == {"new", "sent", "refused", "result", "indeterminate"}

\* The frames a client and the server send: the requests of its own callers, and
\* answers to the requests of the other side.
Notices == [t : {"hello", "activated", "close"}, q : {0}, cause : Causes]
UpFrames == Notices \cup [t : {"request"}, q : ClientCalls, cause : Causes]
                    \cup [t : {"reply", "ack"}, q : ServerCalls, cause : Causes]
DownFrames == Notices \cup [t : {"request"}, q : ServerCalls, cause : Causes]
                      \cup [t : {"reply", "ack"}, q : ClientCalls, cause : Causes]

Peers == [conn : 0..MaxConns, phase : Phases, enable : BOOLEAN, timer : BOOLEAN, established : BOOLEAN,
          running : SUBSET ServerCalls, unacked : SUBSET ServerCalls, late : SUBSET ClientCalls]
Links == [owner : Clients, supersede : BOOLEAN, health : {"unused", "ok", "broken"},
          c2s : Seq(UpFrames), s2c : Seq(DownFrames)]
Streams == [stage : Stages, queue : Seq(ClientCalls), running : SUBSET ClientCalls,
            acked : SUBSET ServerCalls, late : SUBSET ServerCalls]
Outcomes == [st : Statuses, conn : 0..MaxConns, runs : Nat]

\* The types of the variables, wider than TypeOK in the data and stated as sets.
TypeInv ==
  /\ client \in [Clients -> Peers]
  /\ net \in [Conns -> Links]
  /\ stream \in [Conns -> Streams]
  /\ reg \in [pending : 0..MaxConns, active : 0..MaxConns]
  /\ call \in [Calls -> Outcomes]
  /\ faults \in Nat
  /\ expired \in SUBSET Nat
  /\ blamed \in SUBSET Nat

\* Some frame of a queue has kind t; some frame is about request q.
Has(s, t) == \E i \in DOMAIN s : s[i].t = t
About(s, q) == \E i \in DOMAIN s : s[i].q = q
Replies(s, q) == \E i \in DOMAIN s : s[i].q = q /\ s[i].t = "reply"

\* Frames about one request: one request, or a receipt and then a reply.
Ordered(s, q) ==
  \A i, j \in DOMAIN s : i < j /\ s[i].q = q /\ s[j].q = q => s[i].t = "ack" /\ s[j].t = "reply"

\* Queue u says no more about request q, or about any, than queue s.
Less(s, u, q) == /\ About(u, q) => About(s, q)
                 /\ Replies(u, q) => Replies(s, q)
                 /\ Ordered(s, q) => Ordered(u, q)
Fewer(s, u) == \A q \in Calls : Less(s, u, q)

\* Connections are used in order, and a used one has left stage "none".
Allocation ==
  \A k \in Conns : /\ net[k].health = "unused" <=> stream[k].stage = "none"
                   /\ net[k].health = "unused" => \A i \in Conns : i > k => net[i].health = "unused"

\* A client that has a WebSocket owns its connection.
Sockets ==
  \A c \in Clients : /\ client[c].conn = 0 <=> client[c].phase \in {"idle", "closed", "conflict"}
                     /\ client[c].conn # 0 => /\ net[client[c].conn].owner = c
                                              /\ net[client[c].conn].health # "unused"

\* ACTIVATED is only sent for a stream that was published.
Published == {"activated", "open", "revoked"}
Announced ==
  /\ \A k \in Conns : Has(net[k].s2c, "activated") => stream[k].stage \in Published
  /\ \A c \in Clients : client[c].phase = "connected" => stream[client[c].conn].stage \in Published

\* A stream that was revoked has told the client that still holds the socket.
Told ==
  \A k \in Conns : stream[k].stage = "revoked" /\ net[k].health = "ok" /\ OnSocket(Owner(k), k)
                      => Has(net[k].s2c, "close")

ControlInv ==
  /\ Allocation
  /\ Sockets
  /\ EveryLiveStreamIsCurrent
  /\ Announced
  /\ Told
  /\ NeverStranded

\* The owner of connection k still holds it; it runs the handler of server request q.
Held(k) == OnSocket(Owner(k), k)
Handling(k, q) == Held(k) /\ q \in client[Owner(k)].running

\* A request that was given up has a tombstone, or had one.
ClientExcuses(k, q) == q \in client[Owner(k)].late \cup expired
ServerExcuses(k, q) == q \in stream[k].late \cup expired

Queued(s, q) == \E i \in DOMAIN s : s[i] = q
Once(s, q) == \A i, j \in DOMAIN s : s[i] = q /\ s[j] = q => i = j

\* A request of a client has one place at a time on its connection: on its way,
\* queued, at its handler, or answered.
ClientToken(k, q) ==
  LET asked == About(net[k].c2s, q)
      queued == Queued(stream[k].queue, q)
      running == q \in stream[k].running
      answered == About(net[k].s2c, q)
  IN  /\ Ordered(net[k].c2s, q) /\ Ordered(net[k].s2c, q) /\ Once(stream[k].queue, q)
      /\ asked => ~queued /\ ~running /\ ~answered /\ call[q].runs = 0
      /\ queued => ~running /\ ~answered /\ call[q].runs = 0
      /\ running => ~Replies(net[k].s2c, q) /\ call[q].runs = 1
      /\ answered => call[q].runs = 1
      /\ stream[k].stage = "none" => ~queued /\ ~running
      /\ call[q].st = "sent" /\ call[q].conn = k => Held(k)
      /\ asked \/ queued \/ running \/ answered =>
            /\ call[q].conn = k /\ call[q].st \in {"sent", "indeterminate"}
            /\ call[q].st = "indeterminate" /\ Held(k) => ClientExcuses(k, q)

\* A request of the server likewise; its handler runs in the client, and the server
\* invokes only on streams that were given to connection handlers.
Invocable == {"handlers", "activated", "open", "revoked"}
ServerToken(k, q) ==
  LET asked == About(net[k].s2c, q)
      running == Handling(k, q)
      answered == About(net[k].c2s, q)
  IN  /\ Ordered(net[k].c2s, q) /\ Ordered(net[k].s2c, q)
      /\ asked => ~running /\ ~answered /\ call[q].runs = 0
      /\ running => ~Replies(net[k].c2s, q) /\ call[q].runs = 1
      /\ running /\ q \in client[Owner(k)].unacked => ~answered
      /\ answered => call[q].runs = 1
      /\ call[q].conn = k => stream[k].stage \in Invocable
      /\ call[q].st = "sent" /\ call[q].conn = k => Live(k)
      /\ asked \/ running \/ answered =>
            /\ call[q].conn = k /\ call[q].st \in {"sent", "indeterminate"}
            /\ call[q].st = "indeterminate" /\ Live(k) => ServerExcuses(k, q)

TokensAt(k) == /\ \A q \in ClientCalls : ClientToken(k, q)
               /\ \A q \in ServerCalls : ServerToken(k, q)
Tokens == \A k \in Conns : TokensAt(k)

\* A receipt is owed only for a handler that runs.
Receipted == \A c \in Clients : client[c].unacked \subseteq client[c].running

\* How often the handler of a call has started.
Counted(q) == /\ call[q].runs \in {0, 1}
              /\ call[q].st \in {"new", "refused"} => call[q].runs = 0
              /\ call[q].st = "result" => call[q].runs = 1
              /\ call[q].st = "sent" => call[q].conn # 0

TokenInv ==
  /\ Tokens
  /\ Receipted
  /\ \A q \in Calls : Counted(q)
  /\ LateAnswersAreForgiven

-----------------------------------------------------------------------------
(***************************************************************************)
(* The operators of the model.                                             *)
(***************************************************************************)

\* Request IDs and connections are numbers.
LEMMA Numbers ==
  /\ Calls \subseteq Nat \ {0} /\ ClientCalls \subseteq Calls /\ ServerCalls \subseteq Calls
  /\ Conns \subseteq 0..MaxConns /\ 0 \notin Conns
  /\ Conns = (0..MaxConns) \ {0} /\ 0 \in 0..MaxConns
  BY SrpcAssumption DEF Calls, Conns

\* What a frame of either direction can be.
LEMMA FrameFields ==
  /\ \A m \in UpFrames : /\ \/ m.t \in {"hello", "activated", "close"} /\ m.q = 0
                            \/ m.t = "request" /\ m.q \in ClientCalls
                            \/ m.t \in {"reply", "ack"} /\ m.q \in ServerCalls
                         /\ m.cause \in Causes
  /\ \A m \in DownFrames : /\ \/ m.t \in {"hello", "activated", "close"} /\ m.q = 0
                              \/ m.t = "request" /\ m.q \in ServerCalls
                              \/ m.t \in {"reply", "ack"} /\ m.q \in ClientCalls
                           /\ m.cause \in Causes
  <1>1. \A m \in Notices : m.t \in {"hello", "activated", "close"} /\ m.q = 0 /\ m.cause \in Causes
    BY DEF Notices
  <1>2. ASSUME NEW Q, NEW m \in [t : {"request"}, q : Q, cause : Causes]
        PROVE  m.t = "request" /\ m.q \in Q /\ m.cause \in Causes
    OBVIOUS
  <1>3. ASSUME NEW Q, NEW m \in [t : {"reply", "ack"}, q : Q, cause : Causes]
        PROVE  m.t \in {"reply", "ack"} /\ m.q \in Q /\ m.cause \in Causes
    OBVIOUS
  <1> QED BY <1>1, <1>2, <1>3 DEF UpFrames, DownFrames

\* The two constructors build frames.
LEMMA FrameType ==
  /\ \A t, q : Msg(t, q).t = t /\ Msg(t, q).q = q
  /\ \A q \in ClientCalls : /\ Msg("request", q) \in UpFrames
                            /\ Msg("reply", q) \in DownFrames /\ Msg("ack", q) \in DownFrames
  /\ \A q \in ServerCalls : /\ Msg("request", q) \in DownFrames
                            /\ Msg("reply", q) \in UpFrames /\ Msg("ack", q) \in UpFrames
  /\ Msg("hello", 0) \in DownFrames /\ Msg("activated", 0) \in DownFrames
  /\ \A why : Close(why).t = "close" /\ Close(why).q = 0 /\ Close(why).cause = why
  /\ \A why \in Causes : Close(why) \in UpFrames /\ Close(why) \in DownFrames
  BY DEF Msg, Close, UpFrames, DownFrames, Notices, Causes

\* Appending a frame to a queue adds one frame.
LEMMA AppendFrame ==
  ASSUME NEW S, NEW s \in Seq(S), NEW m \in S
  PROVE  /\ \A t : Has(Append(s, m), t) <=> Has(s, t) \/ m.t = t
         /\ \A q : About(Append(s, m), q) <=> About(s, q) \/ m.q = q
         /\ \A q : Replies(Append(s, m), q) <=> Replies(s, q) \/ (m.q = q /\ m.t = "reply")
         /\ \A q : Ordered(s, q) /\ (m.q = q /\ About(s, q) => m.t = "reply" /\ ~Replies(s, q)
                                                              /\ \A i \in DOMAIN s : s[i].q = q => s[i].t = "ack")
                      => Ordered(Append(s, m), q)
  <1> DEFINE u == Append(s, m)
  <1>1. /\ Len(s) \in Nat /\ DOMAIN s = 1..Len(s) /\ DOMAIN u = 1..(Len(s) + 1)
        /\ \A i \in DOMAIN s : u[i] = s[i]
        /\ u[Len(s) + 1] = m
    OBVIOUS
  <1>2. /\ DOMAIN u = DOMAIN s \cup {Len(s) + 1} /\ Len(s) + 1 \notin DOMAIN s
        /\ \A i \in DOMAIN s : i < Len(s) + 1 /\ ~(Len(s) + 1 < i)
    BY <1>1
  <1>3. ~(Len(s) + 1 < Len(s) + 1)
    BY <1>1
  <1> HIDE DEF u
  <1>4. \A t : Has(u, t) <=> Has(s, t) \/ m.t = t
    BY <1>1, <1>2 DEF Has
  <1>5. \A q : About(u, q) <=> About(s, q) \/ m.q = q
    BY <1>1, <1>2 DEF About
  <1>6. \A q : Replies(u, q) <=> Replies(s, q) \/ (m.q = q /\ m.t = "reply")
    BY <1>1, <1>2 DEF Replies
  <1>7. ASSUME NEW q, Ordered(s, q),
               m.q = q /\ About(s, q) => /\ m.t = "reply" /\ ~Replies(s, q)
                                         /\ \A i \in DOMAIN s : s[i].q = q => s[i].t = "ack"
        PROVE  Ordered(u, q)
    <2> SUFFICES ASSUME NEW i \in DOMAIN u, NEW j \in DOMAIN u, i < j, u[i].q = q, u[j].q = q
                 PROVE  u[i].t = "ack" /\ u[j].t = "reply"
      BY DEF Ordered
    <2>1. CASE i \in DOMAIN s /\ j \in DOMAIN s
      BY <1>1, <1>7, <2>1 DEF Ordered
    <2>2. CASE i \in DOMAIN s /\ j = Len(s) + 1
      BY <1>1, <1>7, <2>2 DEF About
    <2> QED BY <1>2, <1>3, <2>1, <2>2
  <1> QED BY <1>4, <1>5, <1>6, <1>7 DEF u

\* Taking the head of a queue removes one frame.
LEMMA TailFrame ==
  ASSUME NEW S, NEW s \in Seq(S), s # <<>>
  PROVE  /\ Tail(s) \in Seq(S) /\ Head(s) \in S
         /\ \A t : /\ Has(Tail(s), t) => Has(s, t)
                   /\ Has(s, t) => Has(Tail(s), t) \/ Head(s).t = t
                   /\ Head(s).t = t => Has(s, t)
         /\ \A q : /\ About(Tail(s), q) => About(s, q)
                   /\ Replies(Tail(s), q) => Replies(s, q)
                   /\ Head(s).q = q => About(s, q)
                   /\ Head(s).q = q /\ Head(s).t = "reply" => Replies(s, q)
                   /\ Ordered(s, q) => Ordered(Tail(s), q)
                   /\ Ordered(s, q) /\ Head(s).q = q /\ Head(s).t # "ack" => ~About(Tail(s), q)
  <1> DEFINE u == Tail(s)
  <1>1. /\ u \in Seq(S) /\ Head(s) \in S /\ Head(s) = s[1]
        /\ Len(s) \in Nat \ {0} /\ DOMAIN s = 1..Len(s) /\ DOMAIN u = 1..(Len(s) - 1)
        /\ \A i \in DOMAIN u : u[i] = s[i + 1]
    OBVIOUS
  <1>2. /\ 1 \in DOMAIN s
        /\ \A i \in DOMAIN u : i + 1 \in DOMAIN s /\ 1 < i + 1
        /\ \A i \in DOMAIN s : i = 1 \/ (i - 1 \in DOMAIN u /\ u[i - 1] = s[i])
        /\ \A i, j \in DOMAIN u : i < j => i + 1 < j + 1
    BY <1>1
  <1> HIDE DEF u
  <1>3. \A t : /\ Has(u, t) => Has(s, t)
               /\ Has(s, t) => Has(u, t) \/ Head(s).t = t
               /\ Head(s).t = t => Has(s, t)
    BY <1>1, <1>2 DEF Has
  <1>4. \A q : (About(u, q) => About(s, q)) /\ (Head(s).q = q => About(s, q))
    BY <1>1, <1>2 DEF About
  <1>5. \A q : /\ Replies(u, q) => Replies(s, q)
               /\ Head(s).q = q /\ Head(s).t = "reply" => Replies(s, q)
    BY <1>1, <1>2 DEF Replies
  <1>6. \A q : Ordered(s, q) => Ordered(u, q)
    BY <1>1, <1>2 DEF Ordered
  <1>7. \A q : Ordered(s, q) /\ Head(s).q = q /\ Head(s).t # "ack" => ~About(u, q)
    BY <1>1, <1>2 DEF Ordered, About
  <1> QED BY <1>1, <1>3, <1>4, <1>5, <1>6, <1>7 DEF u

\* Appending receipts for the requests of S adds no other frame.
LEMMA AppendReceipts ==
  ASSUME NEW s \in Seq(DownFrames), NEW S \in Seq(ClientCalls), NEW u,
         u = s \o [i \in DOMAIN S |-> Msg("ack", S[i])]
  PROVE  /\ u \in Seq(DownFrames)
         /\ Has(s, "close") => Has(u, "close")
         /\ Has(u, "activated") => Has(s, "activated")
         /\ \A q : /\ About(u, q) => About(s, q) \/ \E i \in DOMAIN S : S[i] = q
                   /\ Replies(u, q) => Replies(s, q)
                   /\ (/\ Ordered(s, q)
                       /\ \A i, j \in DOMAIN S : S[i] = q /\ S[j] = q => i = j
                       /\ (\E i \in DOMAIN S : S[i] = q) => ~About(s, q)) => Ordered(u, q)
  <1> DEFINE w == [i \in DOMAIN S |-> Msg("ack", S[i])]
  <1>1. /\ Len(S) \in Nat /\ DOMAIN S = 1..Len(S) /\ DOMAIN w = 1..Len(S)
        /\ \A i \in 1..Len(S) : S[i] \in ClientCalls /\ w[i] = Msg("ack", S[i])
    OBVIOUS
  <1>2. \A i \in 1..Len(S) : w[i] \in DownFrames /\ w[i].t = "ack" /\ w[i].q = S[i]
    BY <1>1, FrameType
  <1>3. w \in Seq(DownFrames) /\ Len(w) = Len(S)
    <2>1. w \in [1..Len(S) -> DownFrames]
      BY <1>1, <1>2
    <2> HIDE DEF w
    <2> QED BY <1>1, <2>1, IsASeq, LenProperties, SMTT(60)
  <1> HIDE DEF w
  <1>4. u = s \o w
    BY DEF w
  <1>5. /\ u \in Seq(DownFrames) /\ Len(u) = Len(s) + Len(S) /\ Len(s) \in Nat
        /\ DOMAIN u = 1..(Len(s) + Len(S)) /\ DOMAIN s = 1..Len(s)
    BY <1>1, <1>3, <1>4, ConcatProperties, LenProperties
  <1>6. /\ \A i \in DOMAIN s : i \in DOMAIN u /\ u[i] = s[i]
        /\ \A i \in DOMAIN u : i \notin DOMAIN s =>
              i - Len(s) \in DOMAIN S /\ u[i] = w[i - Len(s)]
    <2>1. \A i \in 1..(Len(s) + Len(S)) : u[i] = IF i <= Len(s) THEN s[i] ELSE w[i - Len(s)]
      BY <1>1, <1>3, <1>4, ConcatProperties
    <2> QED BY <1>1, <1>5, <2>1
  <1>7. \A i \in DOMAIN u : i \notin DOMAIN s => u[i].t = "ack" /\ u[i].q = S[i - Len(s)] /\ i - Len(s) \in DOMAIN S
    BY <1>1, <1>2, <1>6
  <1>8. (Has(s, "close") => Has(u, "close")) /\ (Has(u, "activated") => Has(s, "activated"))
    BY <1>6, <1>7 DEF Has
  <1>9. \A q : /\ About(u, q) => About(s, q) \/ \E i \in DOMAIN S : S[i] = q
               /\ Replies(u, q) => Replies(s, q)
    BY <1>6, <1>7 DEF About, Replies
  <1>10. ASSUME NEW q, Ordered(s, q), \A i, j \in DOMAIN S : S[i] = q /\ S[j] = q => i = j,
                (\E i \in DOMAIN S : S[i] = q) => ~About(s, q)
         PROVE  Ordered(u, q)
    <2> SUFFICES ASSUME NEW i \in DOMAIN u, NEW j \in DOMAIN u, i < j, u[i].q = q, u[j].q = q
                 PROVE  u[i].t = "ack" /\ u[j].t = "reply"
      BY DEF Ordered
    <2>1. CASE i \in DOMAIN s /\ j \in DOMAIN s
      BY <1>6, <1>10, <2>1 DEF Ordered
    <2>2. CASE i \in DOMAIN s /\ j \notin DOMAIN s
      BY <1>6, <1>7, <1>10, <2>2, ZenonT(60) DEF About
    <2>3. CASE i \notin DOMAIN s /\ j \notin DOMAIN s
      <3>1. i - Len(s) = j - Len(s)
        BY <1>7, <1>10, <2>3
      <3> QED BY <1>5, <3>1
    <2>4. ~(i \notin DOMAIN s /\ j \in DOMAIN s)
      BY <1>5
    <2> QED BY <2>1, <2>2, <2>3, <2>4
  <1> QED BY <1>5, <1>8, <1>9, <1>10

\* An empty queue says nothing.
LEMMA NoFrame ==
  /\ \A t : ~Has(<<>>, t)
  /\ \A q : ~About(<<>>, q) /\ ~Replies(<<>>, q) /\ Ordered(<<>>, q)
  BY DEF Has, About, Replies, Ordered

\* A notice, a received frame and a cleared queue add nothing about a request.
LEMMA FewerFrames ==
  ASSUME NEW S, NEW s \in Seq(S)
  PROVE  /\ Fewer(s, s)
         /\ Fewer(s, <<>>)
         /\ s # <<>> => Fewer(s, Tail(s))
         /\ \A m \in S : m.q = 0 => Fewer(s, Append(s, m))
  <1>1. Fewer(s, s) /\ Fewer(s, <<>>)
    BY NoFrame DEF Fewer, Less
  <1>2. s # <<>> => Fewer(s, Tail(s))
    BY TailFrame DEF Fewer, Less
  <1>3. ASSUME NEW m \in S, m.q = 0, NEW q \in Calls
        PROVE  /\ About(Append(s, m), q) => About(s, q)
               /\ Replies(Append(s, m), q) => Replies(s, q)
               /\ Ordered(s, q) => Ordered(Append(s, m), q)
    <2>1. m.q # q
      BY <1>3, Numbers
    <2> QED BY <2>1, AppendFrame
  <1> QED BY <1>1, <1>2, <1>3 DEF Fewer, Less

\* Sending to the server appends to one queue of one connection, or does nothing.
LEMMA UpType ==
  ASSUME NEW n \in [Conns -> Links], NEW k \in Conns, NEW m \in UpFrames
  PROVE  /\ Up(n, k, m) \in [Conns -> Links]
         /\ \A i \in Conns : /\ Up(n, k, m)[i].owner = n[i].owner
                             /\ Up(n, k, m)[i].supersede = n[i].supersede
                             /\ Up(n, k, m)[i].health = n[i].health
                             /\ Up(n, k, m)[i].s2c = n[i].s2c
                             /\ i # k => Up(n, k, m)[i] = n[i]
         /\ Up(n, k, m)[k].c2s = IF n[k].health = "ok" /\ stream[k].stage # "revoked"
                                 THEN Append(n[k].c2s, m) ELSE n[k].c2s
  <1>1. n[k] \in Links /\ Append(n[k].c2s, m) \in Seq(UpFrames)
    BY DEF Links
  <1>2. CASE n[k].health = "ok" /\ stream[k].stage # "revoked"
    <2> DEFINE r == [n[k] EXCEPT !.c2s = Append(n[k].c2s, m)]
    <2>1. /\ r \in Links /\ r.owner = n[k].owner /\ r.supersede = n[k].supersede
          /\ r.health = n[k].health /\ r.s2c = n[k].s2c /\ r.c2s = Append(n[k].c2s, m)
      BY <1>1 DEF Links
    <2>2. Up(n, k, m) = [n EXCEPT ![k] = r]
      BY <1>2 DEF Up
    <2> HIDE DEF r
    <2> QED BY <1>2, <2>1, <2>2
  <1>3. CASE ~(n[k].health = "ok" /\ stream[k].stage # "revoked")
    BY <1>3 DEF Up
  <1> QED BY <1>2, <1>3

\* Sending to the client appends to the other queue, or does nothing.
LEMMA DownType ==
  ASSUME NEW n \in [Conns -> Links], NEW k \in Conns, NEW m \in DownFrames
  PROVE  /\ Down(n, k, m) \in [Conns -> Links]
         /\ \A i \in Conns : /\ Down(n, k, m)[i].owner = n[i].owner
                             /\ Down(n, k, m)[i].supersede = n[i].supersede
                             /\ Down(n, k, m)[i].health = n[i].health
                             /\ Down(n, k, m)[i].c2s = n[i].c2s
                             /\ i # k => Down(n, k, m)[i] = n[i]
         /\ Down(n, k, m)[k].s2c = IF n[k].health = "ok" /\ OnSocket(Owner(k), k)
                                   THEN Append(n[k].s2c, m) ELSE n[k].s2c
  <1>1. n[k] \in Links /\ Append(n[k].s2c, m) \in Seq(DownFrames)
    BY DEF Links
  <1>2. CASE n[k].health = "ok" /\ OnSocket(Owner(k), k)
    <2> DEFINE r == [n[k] EXCEPT !.s2c = Append(n[k].s2c, m)]
    <2>1. /\ r \in Links /\ r.owner = n[k].owner /\ r.supersede = n[k].supersede
          /\ r.health = n[k].health /\ r.c2s = n[k].c2s /\ r.s2c = Append(n[k].s2c, m)
      BY <1>1 DEF Links
    <2>2. Down(n, k, m) = [n EXCEPT ![k] = r]
      BY <1>2 DEF Down
    <2> HIDE DEF r
    <2> QED BY <1>2, <2>1, <2>2
  <1>3. CASE ~(n[k].health = "ok" /\ OnSocket(Owner(k), k))
    BY <1>3 DEF Down
  <1> QED BY <1>2, <1>3

\* Receiving takes the head of a queue.
LEMMA PopType ==
  ASSUME TypeInv, NEW k \in Conns
  PROVE  /\ net[k].c2s # <<>> =>
              /\ PopUp(k) \in [Conns -> Links]
              /\ \A i \in Conns : i # k => PopUp(k)[i] = net[i]
              /\ PopUp(k)[k].c2s = Tail(net[k].c2s) /\ PopUp(k)[k].s2c = net[k].s2c
              /\ PopUp(k)[k].owner = net[k].owner /\ PopUp(k)[k].health = net[k].health
         /\ net[k].s2c # <<>> =>
              /\ PopDown(k) \in [Conns -> Links]
              /\ \A i \in Conns : i # k => PopDown(k)[i] = net[i]
              /\ PopDown(k)[k].s2c = Tail(net[k].s2c) /\ PopDown(k)[k].c2s = net[k].c2s
              /\ PopDown(k)[k].owner = net[k].owner /\ PopDown(k)[k].health = net[k].health
  <1>0. net \in [Conns -> Links] /\ net[k] \in Links
    BY DEF TypeInv
  <1>1. ASSUME net[k].c2s # <<>>
        PROVE  /\ PopUp(k) \in [Conns -> Links]
               /\ \A i \in Conns : i # k => PopUp(k)[i] = net[i]
               /\ PopUp(k)[k].c2s = Tail(net[k].c2s) /\ PopUp(k)[k].s2c = net[k].s2c
               /\ PopUp(k)[k].owner = net[k].owner /\ PopUp(k)[k].health = net[k].health
    <2> DEFINE r == [net[k] EXCEPT !.c2s = Tail(net[k].c2s)]
    <2>1. Tail(net[k].c2s) \in Seq(UpFrames)
      BY <1>0, <1>1 DEF Links
    <2>2. /\ r \in Links /\ r.owner = net[k].owner /\ r.health = net[k].health
          /\ r.s2c = net[k].s2c /\ r.c2s = Tail(net[k].c2s)
      BY <1>0, <2>1 DEF Links
    <2>3. PopUp(k) = [net EXCEPT ![k] = r]
      BY DEF PopUp
    <2> HIDE DEF r
    <2> QED BY <1>0, <2>2, <2>3
  <1>2. ASSUME net[k].s2c # <<>>
        PROVE  /\ PopDown(k) \in [Conns -> Links]
               /\ \A i \in Conns : i # k => PopDown(k)[i] = net[i]
               /\ PopDown(k)[k].s2c = Tail(net[k].s2c) /\ PopDown(k)[k].c2s = net[k].c2s
               /\ PopDown(k)[k].owner = net[k].owner /\ PopDown(k)[k].health = net[k].health
    <2> DEFINE r == [net[k] EXCEPT !.s2c = Tail(net[k].s2c)]
    <2>1. Tail(net[k].s2c) \in Seq(DownFrames)
      BY <1>0, <1>2 DEF Links
    <2>2. /\ r \in Links /\ r.owner = net[k].owner /\ r.health = net[k].health
          /\ r.c2s = net[k].c2s /\ r.s2c = Tail(net[k].s2c)
      BY <1>0, <2>1 DEF Links
    <2>3. PopDown(k) = [net EXCEPT ![k] = r]
      BY DEF PopDown
    <2> HIDE DEF r
    <2> QED BY <1>0, <2>2, <2>3
  <1> QED BY <1>1, <1>2

\* Clearing a queue.
LEMMA ClearType ==
  ASSUME NEW n \in [Conns -> Links], NEW k \in Conns
  PROVE  /\ [n EXCEPT ![k].s2c = <<>>] \in [Conns -> Links]
         /\ \A i \in Conns : /\ i # k => [n EXCEPT ![k].s2c = <<>>][i] = n[i]
                             /\ [n EXCEPT ![k].s2c = <<>>][i].owner = n[i].owner
                             /\ [n EXCEPT ![k].s2c = <<>>][i].health = n[i].health
                             /\ [n EXCEPT ![k].s2c = <<>>][i].c2s = n[i].c2s
         /\ [n EXCEPT ![k].s2c = <<>>][k].s2c = <<>>
         /\ [n EXCEPT ![k].c2s = <<>>] \in [Conns -> Links]
         /\ \A i \in Conns : /\ i # k => [n EXCEPT ![k].c2s = <<>>][i] = n[i]
                             /\ [n EXCEPT ![k].c2s = <<>>][i].owner = n[i].owner
                             /\ [n EXCEPT ![k].c2s = <<>>][i].health = n[i].health
                             /\ [n EXCEPT ![k].c2s = <<>>][i].s2c = n[i].s2c
         /\ [n EXCEPT ![k].c2s = <<>>][k].c2s = <<>>
  <1>0. n[k] \in Links /\ <<>> \in Seq(UpFrames) /\ <<>> \in Seq(DownFrames)
    OBVIOUS
  <1> DEFINE r == [n[k] EXCEPT !.s2c = <<>>]
  <1> DEFINE u == [n[k] EXCEPT !.c2s = <<>>]
  <1>1. /\ r \in Links /\ r.owner = n[k].owner /\ r.health = n[k].health
        /\ r.c2s = n[k].c2s /\ r.s2c = <<>>
    BY <1>0 DEF Links
  <1>2. /\ u \in Links /\ u.owner = n[k].owner /\ u.health = n[k].health
        /\ u.s2c = n[k].s2c /\ u.c2s = <<>>
    BY <1>0 DEF Links
  <1>3. [n EXCEPT ![k].s2c = <<>>] = [n EXCEPT ![k] = r] /\ [n EXCEPT ![k].c2s = <<>>] = [n EXCEPT ![k] = u]
    OBVIOUS
  <1> HIDE DEF r, u
  <1> QED BY <1>1, <1>2, <1>3

\* A client that says goodbye adds nothing about a request.
LEMMA UpNotice ==
  ASSUME NEW n \in [Conns -> Links], NEW k \in Conns, NEW why \in Causes
  PROVE  /\ Up(n, k, Close(why)) \in [Conns -> Links]
         /\ \A i \in Conns : /\ Up(n, k, Close(why))[i].owner = n[i].owner
                             /\ Up(n, k, Close(why))[i].health = n[i].health
                             /\ Up(n, k, Close(why))[i].s2c = n[i].s2c
                             /\ Fewer(n[i].c2s, Up(n, k, Close(why))[i].c2s)
                             /\ i # k => Up(n, k, Close(why))[i] = n[i]
  <1> DEFINE m == Close(why)
             x == n[k].c2s
  <1>1. m \in UpFrames /\ m.q = 0
    BY FrameType
  <1>2. \A i \in Conns : n[i].c2s \in Seq(UpFrames)
    BY DEF Links
  <1>3. x \in Seq(UpFrames)
    BY <1>2
  <1> HIDE DEF m, x
  <1>4. Fewer(x, x) /\ Fewer(x, Append(x, m))
    BY <1>1, <1>3, FewerFrames
  <1>5. /\ Up(n, k, m) \in [Conns -> Links]
        /\ \A i \in Conns : /\ Up(n, k, m)[i].owner = n[i].owner /\ Up(n, k, m)[i].health = n[i].health
                            /\ Up(n, k, m)[i].s2c = n[i].s2c
                            /\ i # k => Up(n, k, m)[i] = n[i]
        /\ Up(n, k, m)[k].c2s = Append(x, m) \/ Up(n, k, m)[k].c2s = x
    BY <1>1, UpType, ZenonT(60) DEF x
  <1>6. \A i \in Conns : Fewer(n[i].c2s, n[i].c2s)
    BY <1>2, FewerFrames
  <1> QED BY <1>4, <1>5, <1>6 DEF m, x

\* A notice of the server adds itself and nothing about a request.
LEMMA DownNotice ==
  ASSUME NEW n \in [Conns -> Links], NEW k \in Conns, NEW m \in DownFrames, m.q = 0
  PROVE  /\ Down(n, k, m) \in [Conns -> Links]
         /\ \A i \in Conns : /\ Down(n, k, m)[i].owner = n[i].owner
                             /\ Down(n, k, m)[i].health = n[i].health
                             /\ Down(n, k, m)[i].c2s = n[i].c2s
                             /\ i # k => Down(n, k, m)[i] = n[i]
         /\ Fewer(n[k].s2c, Down(n, k, m)[k].s2c)
         /\ Has(n[k].s2c, "close") => Has(Down(n, k, m)[k].s2c, "close")
         /\ Has(Down(n, k, m)[k].s2c, "activated") => Has(n[k].s2c, "activated") \/ m.t = "activated"
         /\ n[k].health = "ok" /\ OnSocket(Owner(k), k) => Has(Down(n, k, m)[k].s2c, m.t)
  <1> DEFINE x == n[k].s2c
             y == Down(n, k, m)[k].s2c
  <1>1. x \in Seq(DownFrames)
    BY DEF Links
  <1>2. /\ Down(n, k, m) \in [Conns -> Links]
        /\ \A i \in Conns : /\ Down(n, k, m)[i].owner = n[i].owner
                            /\ Down(n, k, m)[i].health = n[i].health
                            /\ Down(n, k, m)[i].c2s = n[i].c2s
                            /\ i # k => Down(n, k, m)[i] = n[i]
        /\ y = IF n[k].health = "ok" /\ OnSocket(Owner(k), k) THEN Append(x, m) ELSE x
    BY DownType
  <1> HIDE DEF x, y
  <1>3. /\ Fewer(x, x) /\ Fewer(x, Append(x, m))
        /\ \A t : Has(Append(x, m), t) <=> Has(x, t) \/ m.t = t
    BY <1>1, FewerFrames, AppendFrame
  <1>4. /\ Fewer(x, y)
        /\ Has(x, "close") => Has(y, "close")
        /\ Has(y, "activated") => Has(x, "activated") \/ m.t = "activated"
        /\ n[k].health = "ok" /\ OnSocket(Owner(k), k) => Has(y, m.t)
    BY <1>2, <1>3
  <1> QED BY <1>2, <1>4 DEF x, y

\* The receipts of a dispatch.
LEMMA ReceiptsType ==
  ASSUME NEW n \in [Conns -> Links], NEW k \in Conns, NEW S \in Seq(ClientCalls)
  PROVE  /\ Receipts(n, k, S) \in [Conns -> Links]
         /\ \A i \in Conns : /\ Receipts(n, k, S)[i].owner = n[i].owner
                             /\ Receipts(n, k, S)[i].health = n[i].health
                             /\ Receipts(n, k, S)[i].c2s = n[i].c2s
                             /\ i # k => Receipts(n, k, S)[i] = n[i]
         /\ Has(n[k].s2c, "close") => Has(Receipts(n, k, S)[k].s2c, "close")
         /\ Has(Receipts(n, k, S)[k].s2c, "activated") => Has(n[k].s2c, "activated")
         /\ \A q : /\ About(Receipts(n, k, S)[k].s2c, q) => About(n[k].s2c, q) \/ \E i \in DOMAIN S : S[i] = q
                   /\ Replies(Receipts(n, k, S)[k].s2c, q) => Replies(n[k].s2c, q)
                   /\ (/\ Ordered(n[k].s2c, q)
                       /\ \A i, j \in DOMAIN S : S[i] = q /\ S[j] = q => i = j
                       /\ (\E i \in DOMAIN S : S[i] = q) => ~About(n[k].s2c, q))
                      => Ordered(Receipts(n, k, S)[k].s2c, q)
  <1>1. CASE Acks /\ n[k].health = "ok" /\ OnSocket(Owner(k), k)
    <2> DEFINE x == n[k].s2c
               y == x \o [i \in DOMAIN S |-> Msg("ack", S[i])]
               r == [n[k] EXCEPT !.s2c = y]
    <2>1. n[k] \in Links /\ x \in Seq(DownFrames)
      BY DEF Links
    <2> HIDE DEF x
    <2>2. /\ y \in Seq(DownFrames)
          /\ Has(x, "close") => Has(y, "close")
          /\ Has(y, "activated") => Has(x, "activated")
          /\ \A q : /\ About(y, q) => About(x, q) \/ \E i \in DOMAIN S : S[i] = q
                    /\ Replies(y, q) => Replies(x, q)
                    /\ (/\ Ordered(x, q)
                        /\ \A i, j \in DOMAIN S : S[i] = q /\ S[j] = q => i = j
                        /\ (\E i \in DOMAIN S : S[i] = q) => ~About(x, q)) => Ordered(y, q)
      BY <2>1, AppendReceipts, ZenonT(60)
    <2>3. Receipts(n, k, S) = [n EXCEPT ![k] = r]
      BY <1>1 DEF Receipts, x
    <2> HIDE DEF y
    <2>4. /\ r \in Links /\ r.owner = n[k].owner /\ r.health = n[k].health
          /\ r.c2s = n[k].c2s /\ r.s2c = y
      BY <2>1, <2>2 DEF Links
    <2> HIDE DEF r
    <2>5. /\ Receipts(n, k, S) \in [Conns -> Links] /\ Receipts(n, k, S)[k] = r
          /\ \A i \in Conns : i # k => Receipts(n, k, S)[i] = n[i]
      BY <2>3, <2>4
    <2>6. Receipts(n, k, S)[k].s2c = y
      BY <2>4, <2>5
    <2>7. \A i \in Conns : /\ Receipts(n, k, S)[i].owner = n[i].owner
                           /\ Receipts(n, k, S)[i].health = n[i].health
                           /\ Receipts(n, k, S)[i].c2s = n[i].c2s
      BY <2>4, <2>5
    <2> QED BY <2>2, <2>5, <2>6, <2>7 DEF x
  <1>2. CASE ~(Acks /\ n[k].health = "ok" /\ OnSocket(Owner(k), k))
    <2>1. Receipts(n, k, S) = n
      BY <1>2 DEF Receipts
    <2> QED BY <2>1
  <1> QED BY <1>1, <1>2

\* Calls that are given up keep their connection and their count of starts.
LEMMA AbandonType ==
  ASSUME TypeInv, NEW Q
  PROVE  /\ Abandon(Q) \in [Calls -> Outcomes]
         /\ \A q \in Calls : /\ Abandon(Q)[q].conn = call[q].conn
                             /\ Abandon(Q)[q].runs = call[q].runs
                             /\ Abandon(Q)[q].st = IF q \in Q THEN "indeterminate" ELSE call[q].st
                             /\ q \notin Q => Abandon(Q)[q] = call[q]
  <1> SUFFICES ASSUME NEW q \in Calls
               PROVE  /\ Abandon(Q)[q] \in Outcomes
                      /\ Abandon(Q)[q].conn = call[q].conn
                      /\ Abandon(Q)[q].runs = call[q].runs
                      /\ Abandon(Q)[q].st = IF q \in Q THEN "indeterminate" ELSE call[q].st
                      /\ q \notin Q => Abandon(Q)[q] = call[q]
    BY DEF Abandon
  <1>1. call[q] \in Outcomes
    BY DEF TypeInv
  <1>2. Abandon(Q)[q] = IF q \in Q THEN [call[q] EXCEPT !.st = "indeterminate"] ELSE call[q]
    BY DEF Abandon
  <1>3. CASE q \in Q
    BY <1>1, <1>2, <1>3 DEF Outcomes, Statuses
  <1>4. CASE q \notin Q
    BY <1>1, <1>2, <1>4
  <1> QED BY <1>3, <1>4

-----------------------------------------------------------------------------
(***************************************************************************)
(* What the compound steps do, field by field.                             *)
(***************************************************************************)

\* The WebSocket of a new generation is the first one that was never used.
LEMMA NextConnection ==
  ASSUME TypeInv, Allocation, NEW k \in Conns,
         k = Cardinality({i \in Conns : net[i].health # "unused"}) + 1
  PROVE  net[k].health = "unused" /\ \A i \in Conns : i < k => net[i].health # "unused"
  <1> DEFINE U == {i \in Conns : net[i].health # "unused"}
  <1>0. MaxConns \in Nat /\ Conns = 1..MaxConns /\ k \in Nat \ {0}
    BY SrpcAssumption DEF Conns
  <1>1. IsFiniteSet(U) /\ Cardinality(U) \in Nat
    <2>1. IsFiniteSet(Conns)
      BY <1>0, FS_Interval
    <2>2. U \in SUBSET Conns
      OBVIOUS
    <2> QED BY <2>1, <2>2, FS_Subset, FS_CardinalityType
  <1>4. \A i, j \in Conns : i > j /\ net[j].health = "unused" => net[i].health = "unused"
    BY DEF Allocation
  <1>2. ASSUME net[k].health # "unused" PROVE FALSE
    <2>1. 1..k \subseteq U
      <3> SUFFICES ASSUME NEW i \in 1..k PROVE i \in U
        OBVIOUS
      <3>1. i \in Conns /\ (i = k \/ k > i)
        BY <1>0
      <3> QED BY <1>2, <1>4, <3>1
    <2>2. Cardinality(1..k) = k
      BY <1>0, FS_Interval
    <2>3. k <= Cardinality(U)
      BY <1>1, <2>1, <2>2, FS_Subset, ZenonT(60)
    <2> QED BY <1>1, <2>3
  <1>3. ASSUME NEW i \in Conns, i < k, net[i].health = "unused" PROVE FALSE
    <2>1. U \subseteq 1..(i - 1)
      <3> SUFFICES ASSUME NEW j \in U PROVE j \in 1..(i - 1)
        OBVIOUS
      <3>1. ~(j > i) /\ j # i
        BY <1>3, <1>4
      <3> QED BY <1>0, <3>1
    <2>4. i - 1 \in Int /\ 1 \in Int /\ i - 1 >= 0
      BY <1>0
    <2>2. i - 1 \in Nat /\ IsFiniteSet(1..(i - 1)) /\ Cardinality(1..(i - 1)) = i - 1
      <3> DEFINE j == i - 1
      <3>1. j \in Int /\ 1 \in Int /\ j >= 0
        BY <2>4
      <3> HIDE DEF j
      <3>2. IsFiniteSet(1..j) /\ Cardinality(1..j) = IF 1 > j THEN 0 ELSE j - 1 + 1
        BY <3>1, FS_Interval
      <3>3. Cardinality(1..j) = j /\ j \in Nat
        BY <3>1, <3>2
      <3> QED BY <3>2, <3>3 DEF j
    <2>3. Cardinality(U) <= i - 1
      BY <2>1, <2>2, FS_Subset
    <2> QED BY <1>0, <1>1, <1>3, <2>2, <2>3
  <1> QED BY <1>2, <1>3

\* The requests that wait on a connection are calls of their side.
LEMMA WaitingType ==
  \A k, Q : /\ Waiting(k, Q) \in SUBSET Q
            /\ \A q : q \in Waiting(k, Q) <=> q \in Q /\ call[q].st = "sent" /\ call[q].conn = k
  BY DEF Waiting

\* The network after a client has, perhaps, said goodbye on connection k.
Goodbye(n, k) ==
  /\ n \in [Conns -> Links]
  /\ \A i \in Conns : /\ n[i].owner = net[i].owner /\ n[i].health = net[i].health
                      /\ i # k => n[i] = net[i]
                      /\ Fewer(net[i].c2s, n[i].c2s)

\* Both networks that revokeGeneration() is given are of that kind.
LEMMA GoodbyeCases ==
  ASSUME TypeInv, NEW k \in Conns
  PROVE  Goodbye(net, k) /\ \A why \in Causes : Goodbye(Up(net, k, Close(why)), k)
  <1>1. net \in [Conns -> Links] /\ \A i \in Conns : net[i].c2s \in Seq(UpFrames)
    BY DEF TypeInv, Links
  <1>2. \A i \in Conns : Fewer(net[i].c2s, net[i].c2s)
    BY <1>1, FewerFrames
  <1> QED BY <1>1, <1>2, UpNotice DEF Goodbye

\* What the client that drops connection k leaves of the network.
SocketDropped(k) ==
  /\ net' \in [Conns -> Links] /\ net'[k].s2c = <<>>
  /\ \A i \in Conns : /\ net'[i].owner = net[i].owner /\ net'[i].health = net[i].health
                      /\ i # k => net'[i] = net[i]
                      /\ Fewer(net[i].c2s, net'[i].c2s)

\* A client that gives up its connection, for whatever reason.
LEMMA RevokeEffect ==
  ASSUME TypeInv, NEW c \in Clients, NEW cause, NEW suppress \in BOOLEAN,
         NEW n \in [Conns -> Links], client[c].conn \in Conns, Goodbye(n, client[c].conn),
         revokeGeneration(c, cause, suppress, n)
  PROVE  /\ client' \in [Clients -> Peers]
         /\ \A d \in Clients \ {c} : client'[d] = client[d]
         /\ client'[c].conn = 0 /\ client'[c].running = {} /\ client'[c].unacked = {}
         /\ client'[c].phase = IF cause = "conflict" THEN "conflict" ELSE "closed"
         /\ client'[c].enable = client[c].enable
         /\ client[c].enable /\ ~suppress => client'[c].timer
         /\ SocketDropped(client[c].conn)
         /\ call' \in [Calls -> Outcomes]
         /\ call' = Abandon(Waiting(client[c].conn, ClientCalls))
         /\ UNCHANGED <<stream, reg, expired>>
  <1> DEFINE k == client[c].conn
             dropped == Waiting(k, ClientCalls)
             ph == IF cause = "conflict" THEN "conflict" ELSE "closed"
             tm == client[c].timer \/ (client[c].enable /\ ~suppress)
             la == client[c].late \cup dropped
             r == [client[c] EXCEPT !.conn = 0, !.running = {}, !.unacked = {}, !.phase = ph,
                                    !.timer = tm, !.late = la]
  <1>1. client \in [Clients -> Peers] /\ client[c] \in Peers
    BY DEF TypeInv
  <1>2. /\ client' = [client EXCEPT ![c] = r] /\ net' = [n EXCEPT ![k].s2c = <<>>]
        /\ call' = Abandon(dropped) /\ UNCHANGED <<stream, reg, expired>>
    BY DEF revokeGeneration
  <1>3. ph \in Phases /\ tm \in BOOLEAN
    BY Zenon DEF Phases
  <1>4. la \in SUBSET ClientCalls
    BY <1>1, WaitingType DEF Peers
  <1>11. client[c].enable /\ ~suppress => tm
    BY Zenon
  <1> HIDE DEF ph, tm, la, dropped
  <1>5. /\ r.conn = 0 /\ r.running = {} /\ r.unacked = {} /\ r.phase = ph
        /\ r.enable = client[c].enable /\ r.timer = tm
    BY <1>1 DEF Peers
  <1>9. 0 \in 0..MaxConns
    BY Numbers
  <1>10. r \in Peers
    BY <1>1, <1>3, <1>4, <1>9 DEF Peers
  <1> HIDE DEF r
  <1>6. client' \in [Clients -> Peers] /\ client'[c] = r /\ \A d \in Clients \ {c} : client'[d] = client[d]
    BY <1>1, <1>2, <1>10
  <1>7. call' \in [Calls -> Outcomes]
    BY <1>2, AbandonType
  <1>8. SocketDropped(k)
    <2>1. /\ [n EXCEPT ![k].s2c = <<>>] \in [Conns -> Links]
          /\ \A i \in Conns : /\ i # k => [n EXCEPT ![k].s2c = <<>>][i] = n[i]
                              /\ [n EXCEPT ![k].s2c = <<>>][i].owner = n[i].owner
                              /\ [n EXCEPT ![k].s2c = <<>>][i].health = n[i].health
                              /\ [n EXCEPT ![k].s2c = <<>>][i].c2s = n[i].c2s
          /\ [n EXCEPT ![k].s2c = <<>>][k].s2c = <<>>
      BY ClearType, ZenonT(60)
    <2>2. /\ net' \in [Conns -> Links] /\ net'[k].s2c = <<>>
          /\ \A i \in Conns : /\ net'[i].owner = n[i].owner /\ net'[i].health = n[i].health
                              /\ net'[i].c2s = n[i].c2s
                              /\ i # k => net'[i] = n[i]
      BY Zenon, <1>2, <2>1
    <2> QED BY <2>2 DEF Goodbye, SocketDropped
  <1> QED BY <1>2, <1>5, <1>6, <1>7, <1>8, <1>11 DEF dropped, ph

\* A client that starts a generation: the connection it held is closed in its own
\* direction, and a fresh one is opened.
LEMMA StartEffect ==
  ASSUME TypeInv, Allocation, Sockets, NEW c \in Clients, NEW supersede \in BOOLEAN,
         StartGeneration(c, supersede)
  PROVE  \E k \in Conns :
         /\ net[k].health = "unused" /\ \A i \in Conns : i < k => net[i].health # "unused"
         /\ client' \in [Clients -> Peers]
         /\ \A d \in Clients \ {c} : client'[d] = client[d]
         /\ client'[c].conn = k /\ client'[c].phase = "opening" /\ client'[c].enable = client[c].enable
         /\ client'[c].running = {} /\ client'[c].unacked = {}
         /\ net' \in [Conns -> Links]
         /\ net'[k].owner = c /\ net'[k].health = "ok" /\ net'[k].c2s = <<>> /\ net'[k].s2c = <<>>
         /\ \A i \in Conns \ {k} :
               /\ net'[i].owner = net[i].owner /\ net'[i].health = net[i].health
               /\ i # client[c].conn => net'[i] = net[i]
               /\ i = client[c].conn => net'[i].s2c = <<>> /\ Fewer(net[i].c2s, net'[i].c2s)
         /\ stream' \in [Conns -> Streams]
         /\ \A i \in Conns \ {k} : stream'[i] = stream[i]
         /\ stream'[k].stage = "auth" /\ stream'[k].queue = stream[k].queue
         /\ stream'[k].running = stream[k].running
         /\ call' \in [Calls -> Outcomes]
         /\ call' = Abandon(IF client[c].conn = 0 THEN {} ELSE Waiting(client[c].conn, ClientCalls))
         /\ UNCHANGED <<reg, expired, blamed>>
  <1> DEFINE old == client[c].conn
             k == Cardinality({i \in Conns : net[i].health # "unused"}) + 1
             dropped == IF old = 0 THEN {} ELSE Waiting(old, ClientCalls)
             left == IF old = 0 THEN net ELSE [Up(net, old, Close("supersede")) EXCEPT ![old].s2c = <<>>]
             la == client[c].late \cup dropped
             r == [client[c] EXCEPT !.conn = k, !.phase = "opening", !.timer = FALSE,
                                    !.running = {}, !.unacked = {}, !.late = la]
             w == [owner |-> c, supersede |-> supersede, health |-> "ok", c2s |-> <<>>, s2c |-> <<>>]
             u == [stream[k] EXCEPT !.stage = "auth"]
  <1>1. /\ k \in Conns /\ client' = [client EXCEPT ![c] = r] /\ net' = [left EXCEPT ![k] = w]
        /\ stream' = [stream EXCEPT ![k] = u] /\ call' = Abandon(dropped)
        /\ UNCHANGED <<reg, expired, blamed>>
    BY DEF StartGeneration
  <1>2. net[k].health = "unused" /\ \A i \in Conns : i < k => net[i].health # "unused"
    BY <1>1, NextConnection
  <1>3. /\ client \in [Clients -> Peers] /\ client[c] \in Peers /\ net \in [Conns -> Links]
        /\ stream \in [Conns -> Streams] /\ stream[k] \in Streams /\ old \in 0..MaxConns
    BY <1>1 DEF TypeInv, Peers
  <1>4. old # 0 => old \in Conns /\ old # k
    BY <1>2, <1>3, Numbers DEF Sockets
  <1>5. /\ left \in [Conns -> Links]
        /\ \A i \in Conns : /\ left[i].owner = net[i].owner /\ left[i].health = net[i].health
                            /\ i # old => left[i] = net[i]
                            /\ i = old => left[i].s2c = <<>> /\ Fewer(net[i].c2s, left[i].c2s)
    <2>1. CASE old = 0
      BY <1>3, <2>1, Numbers
    <2>2. CASE old # 0
      <3> DEFINE n == Up(net, old, Close("supersede"))
      <3>1. /\ n \in [Conns -> Links]
            /\ \A i \in Conns : /\ n[i].owner = net[i].owner /\ n[i].health = net[i].health
                                /\ i # old => n[i] = net[i]
                                /\ Fewer(net[i].c2s, n[i].c2s)
        BY <1>3, <1>4, <2>2, UpNotice DEF Causes
      <3> HIDE DEF n
      <3>2. left = [n EXCEPT ![old].s2c = <<>>]
        BY <2>2 DEF n
      <3> HIDE DEF left, old
      <3>3. old \in Conns
        BY <1>4, <2>2
      <3>4. /\ left \in [Conns -> Links] /\ left[old].s2c = <<>>
            /\ \A i \in Conns : /\ left[i].owner = n[i].owner /\ left[i].health = n[i].health
                                /\ left[i].c2s = n[i].c2s
                                /\ i # old => left[i] = n[i]
        BY <3>1, <3>2, <3>3, ClearType, ZenonT(60)
      <3> QED BY <3>1, <3>4
    <2> QED BY <2>1, <2>2
  <1>6. w \in Links
    BY DEF Links
  <1>7. dropped \in SUBSET ClientCalls /\ la \in SUBSET ClientCalls
    BY <1>3, WaitingType DEF Peers
  <1>8. k \in 0..MaxConns /\ "opening" \in Phases /\ "auth" \in Stages
    BY <1>1, Numbers DEF Phases, Stages
  <1>9. call' \in [Calls -> Outcomes]
    BY <1>1, AbandonType
  <1> HIDE DEF k, left, la, dropped
  <1>10. /\ r \in Peers /\ r.conn = k /\ r.phase = "opening" /\ r.enable = client[c].enable
         /\ r.running = {} /\ r.unacked = {}
    BY <1>3, <1>7, <1>8 DEF Peers
  <1>11. /\ u \in Streams /\ u.stage = "auth" /\ u.queue = stream[k].queue /\ u.running = stream[k].running
    BY <1>3, <1>8 DEF Streams
  <1>12. w.owner = c /\ w.health = "ok" /\ w.c2s = <<>> /\ w.s2c = <<>>
    OBVIOUS
  <1> HIDE DEF r, u, w
  <1>13. /\ client' \in [Clients -> Peers] /\ client'[c] = r /\ \A d \in Clients \ {c} : client'[d] = client[d]
         /\ stream' \in [Conns -> Streams] /\ stream'[k] = u /\ \A i \in Conns \ {k} : stream'[i] = stream[i]
         /\ net' \in [Conns -> Links] /\ net'[k] = w /\ \A i \in Conns \ {k} : net'[i] = left[i]
    BY <1>1, <1>3, <1>5, <1>6, <1>10, <1>11
  <1>14. call' = Abandon(IF client[c].conn = 0 THEN {} ELSE Waiting(client[c].conn, ClientCalls))
    BY <1>1 DEF dropped
  <1> QED BY <1>1, <1>2, <1>5, <1>9, <1>10, <1>11, <1>12, <1>13, <1>14

\* The network and the calls when a step of the server, perhaps after dispatching
\* requests on connection k, revokes the stream.
Dispatched(n, r, k) ==
  /\ \A i \in Conns : /\ n[i].owner = net[i].owner /\ n[i].health = net[i].health
                      /\ i # k => n[i] = net[i]
  /\ Has(n[k].s2c, "activated") => Has(net[k].s2c, "activated")
  /\ \A q \in Calls : r[q].st = call[q].st /\ r[q].conn = call[q].conn

\* A stream that the server gives up, for whatever reason.
LEMMA CleanupEffect ==
  ASSUME TypeInv, NEW k \in Conns, NEW cause \in Causes, NEW n \in [Conns -> Links],
         NEW r \in [Calls -> Outcomes], Dispatched(n, r, k), cleanupStream(k, cause, n, r)
  PROVE  /\ stream' \in [Conns -> Streams]
         /\ \A i \in Conns \ {k} : stream'[i] = stream[i]
         /\ stream'[k].stage = "revoked" /\ stream'[k].queue = <<>> /\ stream'[k].running = {}
         /\ reg' \in [pending : 0..MaxConns, active : 0..MaxConns]
         /\ reg'.pending = IF reg.pending = k THEN 0 ELSE reg.pending
         /\ reg'.active = IF reg.active = k THEN 0 ELSE reg.active
         /\ net' \in [Conns -> Links]
         /\ \A i \in Conns : /\ net'[i].owner = net[i].owner /\ net'[i].health = net[i].health
                             /\ i # k => net'[i] = net[i]
         /\ net'[k].c2s = <<>> /\ Fewer(n[k].s2c, net'[k].s2c)
         /\ net[k].health = "ok" /\ OnSocket(Owner(k), k) => Has(net'[k].s2c, "close")
         /\ Has(net'[k].s2c, "activated") => Has(net[k].s2c, "activated")
         /\ call' \in [Calls -> Outcomes]
         /\ \A q \in Calls : /\ call'[q].conn = call[q].conn /\ call'[q].runs = r[q].runs
                             /\ call'[q].st = IF q \in Waiting(k, ServerCalls) THEN "indeterminate"
                                              ELSE call[q].st
         /\ UNCHANGED <<client, expired>>
  <1> DEFINE u == Revoked(k)
             m == Close(cause)
             d == Down(n, k, m)
             g == Unregister(k)
  <1>1. /\ stream' = [stream EXCEPT ![k] = u] /\ reg' = g /\ net' = [d EXCEPT ![k].c2s = <<>>]
        /\ call' = [q \in Calls |-> IF q \in Waiting(k, ServerCalls)
                                    THEN [r[q] EXCEPT !.st = "indeterminate"] ELSE r[q]]
        /\ UNCHANGED <<client, expired>>
    BY DEF cleanupStream
  <1>2. /\ stream \in [Conns -> Streams] /\ stream[k] \in Streams
        /\ reg \in [pending : 0..MaxConns, active : 0..MaxConns]
    BY DEF TypeInv
  <1>3. "revoked" \in Stages /\ <<>> \in Seq(ClientCalls) /\ 0 \in 0..MaxConns
    BY Numbers DEF Stages
  <1>4. u \in Streams /\ u.stage = "revoked" /\ u.queue = <<>> /\ u.running = {}
    BY <1>2, <1>3 DEF Streams, Revoked
  <1>5. /\ g \in [pending : 0..MaxConns, active : 0..MaxConns]
        /\ g.pending = IF reg.pending = k THEN 0 ELSE reg.pending
        /\ g.active = IF reg.active = k THEN 0 ELSE reg.active
    BY <1>2, <1>3 DEF Unregister
  <1>6. m \in DownFrames /\ m.q = 0 /\ m.t = "close"
    BY FrameType
  <1> HIDE DEF u, m, g
  <1>7. /\ d \in [Conns -> Links]
        /\ \A i \in Conns : /\ d[i].owner = n[i].owner /\ d[i].health = n[i].health
                            /\ i # k => d[i] = n[i]
        /\ Fewer(n[k].s2c, d[k].s2c)
        /\ Has(d[k].s2c, "activated") => Has(n[k].s2c, "activated")
        /\ n[k].health = "ok" /\ OnSocket(Owner(k), k) => Has(d[k].s2c, "close")
    <2>1. /\ d \in [Conns -> Links]
          /\ \A i \in Conns : /\ d[i].owner = n[i].owner /\ d[i].health = n[i].health
                              /\ i # k => d[i] = n[i]
          /\ Fewer(n[k].s2c, d[k].s2c)
          /\ Has(d[k].s2c, "activated") => Has(n[k].s2c, "activated") \/ m.t = "activated"
          /\ n[k].health = "ok" /\ OnSocket(Owner(k), k) => Has(d[k].s2c, m.t)
      BY <1>6, DownNotice
    <2> QED BY <1>6, <2>1
  <1> HIDE DEF d
  <1>8. /\ [d EXCEPT ![k].c2s = <<>>] \in [Conns -> Links]
        /\ \A i \in Conns : /\ i # k => [d EXCEPT ![k].c2s = <<>>][i] = d[i]
                            /\ [d EXCEPT ![k].c2s = <<>>][i].owner = d[i].owner
                            /\ [d EXCEPT ![k].c2s = <<>>][i].health = d[i].health
                            /\ [d EXCEPT ![k].c2s = <<>>][i].s2c = d[i].s2c
        /\ [d EXCEPT ![k].c2s = <<>>][k].c2s = <<>>
    BY <1>7, ClearType
  <1>9. /\ net' \in [Conns -> Links] /\ net'[k].c2s = <<>> /\ net'[k].s2c = d[k].s2c
        /\ \A i \in Conns : /\ net'[i].owner = d[i].owner /\ net'[i].health = d[i].health
                            /\ i # k => net'[i] = d[i]
    BY Zenon, <1>1, <1>8
  <1>10. /\ \A i \in Conns : /\ net'[i].owner = net[i].owner /\ net'[i].health = net[i].health
                             /\ i # k => net'[i] = net[i]
         /\ Fewer(n[k].s2c, net'[k].s2c)
         /\ net[k].health = "ok" /\ OnSocket(Owner(k), k) => Has(net'[k].s2c, "close")
         /\ Has(net'[k].s2c, "activated") => Has(net[k].s2c, "activated")
    BY <1>7, <1>9 DEF Dispatched
  <1>11. /\ stream' \in [Conns -> Streams] /\ stream'[k] = u
         /\ \A i \in Conns \ {k} : stream'[i] = stream[i]
    BY <1>1, <1>2, <1>4
  <1>12. ASSUME NEW q \in Calls
         PROVE  /\ call'[q] \in Outcomes
                /\ call'[q].conn = call[q].conn /\ call'[q].runs = r[q].runs
                /\ call'[q].st = IF q \in Waiting(k, ServerCalls) THEN "indeterminate" ELSE call[q].st
    <2>1. /\ r[q] \in Outcomes /\ r[q].st = call[q].st /\ r[q].conn = call[q].conn
      BY DEF Dispatched
    <2>2. CASE q \in Waiting(k, ServerCalls)
      <3>1. call'[q] = [r[q] EXCEPT !.st = "indeterminate"]
        BY <1>1, <2>2
      <3> QED BY <2>1, <2>2, <3>1 DEF Outcomes, Statuses
    <2>3. CASE q \notin Waiting(k, ServerCalls)
      BY <1>1, <2>1, <2>3
    <2> QED BY <2>2, <2>3
  <1>13. call' \in [Calls -> Outcomes]
    BY <1>1, <1>12
  <1> QED BY <1>1, <1>4, <1>5, <1>9, <1>10, <1>11, <1>12, <1>13

-----------------------------------------------------------------------------
(***************************************************************************)
(* The control state: sockets, stages, the registry and the two notices    *)
(* that ConnectedIsPublished turns on.  One lemma for each way in which a  *)
(* step can change it.                                                     *)
(***************************************************************************)

ClientsAlike(C) ==
  \A c \in C : /\ client'[c].conn = client[c].conn /\ client'[c].phase = client[c].phase
               /\ client'[c].enable = client[c].enable /\ client'[c].timer = client[c].timer
LinksAlike ==
  \A k \in Conns : net'[k].owner = net[k].owner /\ net'[k].health = net[k].health
NoticesAlike(K) ==
  \A k \in K : /\ Has(net[k].s2c, "close") => Has(net'[k].s2c, "close")
               /\ Has(net'[k].s2c, "activated") => Has(net[k].s2c, "activated")
StagesAlike(K) == \A k \in K : stream'[k].stage = stream[k].stage

\* Steps about requests only.
LEMMA ControlQuiet ==
  ASSUME TypeInv, ControlInv, ClientsAlike(Clients), LinksAlike, NoticesAlike(Conns),
         StagesAlike(Conns), reg' = reg
  PROVE  ControlInv'
  <1> USE DEF ClientsAlike, LinksAlike, NoticesAlike, StagesAlike
  <1>0. \A c \in Clients : client[c].conn # 0 => client[c].conn \in Conns
    BY Numbers DEF TypeInv, Peers
  <1>1. Allocation'
    BY DEF ControlInv, Allocation
  <1>2. Sockets'
    BY <1>0 DEF ControlInv, Sockets
  <1>3. EveryLiveStreamIsCurrent'
    BY DEF ControlInv, EveryLiveStreamIsCurrent, Live, Current
  <1>4. Announced'
    BY <1>0 DEF ControlInv, Announced, Sockets
  <1>5. Told'
    <2>1. \A k \in Conns : net[k].owner \in Clients
      BY DEF TypeInv, Links
    <2> QED BY <2>1 DEF ControlInv, Told, OnSocket, Owner
  <1>6. NeverStranded'
    BY DEF ControlInv, NeverStranded
  <1> QED BY <1>1, <1>2, <1>3, <1>4, <1>5, <1>6 DEF ControlInv

\* A client moves on in its handshake.
LEMMA ControlPhase ==
  ASSUME TypeInv, ControlInv, NEW c \in Clients, client[c].conn # 0,
         client'[c].conn = client[c].conn, client'[c].phase \in {"open", "activating", "connected"},
         client'[c].phase = "connected" => stream[client[c].conn].stage \in Published,
         ClientsAlike(Clients \ {c}), LinksAlike, NoticesAlike(Conns), StagesAlike(Conns), reg' = reg
  PROVE  ControlInv'
  <1> USE DEF ClientsAlike, LinksAlike, NoticesAlike, StagesAlike
  <1>0. /\ \A d \in Clients : client[d].conn # 0 => client[d].conn \in Conns
        /\ \A d \in Clients : client'[d].conn = client[d].conn
    BY Numbers DEF TypeInv, Peers
  <1>1. Allocation'
    BY DEF ControlInv, Allocation
  <1>2. Sockets'
    BY <1>0 DEF ControlInv, Sockets
  <1>3. EveryLiveStreamIsCurrent'
    BY DEF ControlInv, EveryLiveStreamIsCurrent, Live, Current
  <1>4. Announced'
    BY <1>0 DEF ControlInv, Announced, Sockets
  <1>5. Told'
    <2>1. \A k \in Conns : net[k].owner \in Clients
      BY DEF TypeInv, Links
    <2> QED BY <1>0, <2>1 DEF ControlInv, Told, OnSocket, Owner
  <1>6. NeverStranded'
    BY DEF ControlInv, NeverStranded
  <1> QED BY <1>1, <1>2, <1>3, <1>4, <1>5, <1>6 DEF ControlInv

\* A client drops its socket, or is told to stop while it has none.
LEMMA ControlLeave ==
  ASSUME TypeInv, ControlInv, NEW c \in Clients, client'[c].conn = 0,
         client'[c].phase \in {"idle", "closed", "conflict"},
         client'[c].phase = "closed" /\ client'[c].enable => client'[c].timer,
         ClientsAlike(Clients \ {c}), LinksAlike, NoticesAlike(Conns \ {client[c].conn}),
         client[c].conn # 0 => net'[client[c].conn].s2c = <<>>,
         StagesAlike(Conns), reg' = reg
  PROVE  ControlInv'
  <1> USE DEF ClientsAlike, LinksAlike, NoticesAlike, StagesAlike
  <1>0. \A d \in Clients : client[d].conn # 0 => client[d].conn \in Conns
    BY Numbers DEF TypeInv, Peers
  <1>1. Allocation'
    BY DEF ControlInv, Allocation
  <1>2. Sockets'
    BY <1>0 DEF ControlInv, Sockets
  <1>3. EveryLiveStreamIsCurrent'
    BY DEF ControlInv, EveryLiveStreamIsCurrent, Live, Current
  <1>4. Announced'
    <2>1. ASSUME NEW k \in Conns, Has(net'[k].s2c, "activated") PROVE stream[k].stage \in Published
      <3>1. CASE k = client[c].conn
        BY <2>1, <3>1, NoFrame, Numbers
      <3> QED BY <2>1, <3>1 DEF ControlInv, Announced
    <2>2. ASSUME NEW d \in Clients, client'[d].phase = "connected"
          PROVE  stream[client'[d].conn].stage \in Published /\ client'[d].conn \in Conns
      <3>1. d # c /\ client[d].phase = "connected"
        BY <2>2
      <3>2. client[d].conn \in Conns /\ stream[client[d].conn].stage \in Published
        BY <1>0, <3>1 DEF ControlInv, Announced, Sockets
      <3> QED BY <3>1, <3>2
    <2> QED BY <2>1, <2>2 DEF Announced
  <1>5. Told'
    <2>1. \A k \in Conns : net[k].owner \in Clients
      BY DEF TypeInv, Links
    <2> SUFFICES ASSUME NEW k \in Conns, stream'[k].stage = "revoked", net'[k].health = "ok",
                        client'[net'[k].owner].conn = k
                 PROVE  Has(net'[k].s2c, "close")
      BY DEF Told, OnSocket, Owner
    <2>2. net[k].owner # c /\ client[net[k].owner].conn = k
      BY <2>1, Numbers
    <2>3. Has(net[k].s2c, "close")
      BY <2>2 DEF ControlInv, Told, OnSocket, Owner
    <2>4. k # client[c].conn
      BY <2>2, Numbers DEF ControlInv, Sockets
    <2> QED BY <2>3, <2>4
  <1>6. NeverStranded'
    BY DEF ControlInv, NeverStranded
  <1> QED BY <1>1, <1>2, <1>3, <1>4, <1>5, <1>6 DEF ControlInv

\* The server moves a stream on without touching the registry.
LEMMA ControlStage ==
  ASSUME TypeInv, ControlInv, NEW k \in Conns,
         \/ stream[k].stage = "auth" /\ stream'[k].stage = "refused"
         \/ stream[k].stage = "check" /\ stream'[k].stage = "handlers"
         \/ stream[k].stage = "activated" /\ stream'[k].stage = "open",
         ClientsAlike(Clients), LinksAlike, NoticesAlike(Conns), StagesAlike(Conns \ {k}), reg' = reg
  PROVE  ControlInv'
  <1> USE DEF ClientsAlike, LinksAlike, NoticesAlike, StagesAlike
  <1>0. \A c \in Clients : client[c].conn # 0 => client[c].conn \in Conns
    BY Numbers DEF TypeInv, Peers
  <1>1. Allocation'
    BY DEF ControlInv, Allocation
  <1>2. Sockets'
    BY <1>0 DEF ControlInv, Sockets
  <1>3. EveryLiveStreamIsCurrent'
    BY DEF ControlInv, EveryLiveStreamIsCurrent, Live, Current, Registered
  <1>4. Announced'
    BY <1>0 DEF ControlInv, Announced, Sockets, Published
  <1>5. Told'
    <2>1. \A i \in Conns : net[i].owner \in Clients
      BY DEF TypeInv, Links
    <2> QED BY <2>1 DEF ControlInv, Told, OnSocket, Owner
  <1>6. NeverStranded'
    BY DEF ControlInv, NeverStranded
  <1> QED BY <1>1, <1>2, <1>3, <1>4, <1>5, <1>6 DEF ControlInv

\* A client starts a generation on a fresh connection.
LEMMA ControlStart ==
  ASSUME TypeInv, ControlInv, NEW c \in Clients, NEW supersede \in BOOLEAN,
         StartGeneration(c, supersede)
  PROVE  ControlInv'
  <1>0. /\ \A d \in Clients : client[d].conn # 0 => client[d].conn \in Conns
        /\ \A i \in Conns : net[i].owner \in Clients
        /\ Allocation /\ Sockets
    BY Numbers DEF TypeInv, Peers, Links, ControlInv
  <1>1. PICK k \in Conns :
         /\ net[k].health = "unused" /\ \A i \in Conns : i < k => net[i].health # "unused"
         /\ \A d \in Clients \ {c} : client'[d] = client[d]
         /\ client'[c].conn = k /\ client'[c].phase = "opening" /\ client'[c].enable = client[c].enable
         /\ net'[k].owner = c /\ net'[k].health = "ok" /\ net'[k].s2c = <<>>
         /\ \A i \in Conns \ {k} :
               /\ net'[i].owner = net[i].owner /\ net'[i].health = net[i].health
               /\ i # client[c].conn => net'[i] = net[i]
               /\ i = client[c].conn => net'[i].s2c = <<>>
         /\ \A i \in Conns \ {k} : stream'[i] = stream[i]
         /\ stream'[k].stage = "auth"
         /\ reg' = reg
    BY <1>0, StartEffect
  <1>2. stream[k].stage = "none" /\ \A d \in Clients : client[d].conn # k
    BY <1>0, <1>1, Numbers DEF Allocation, Sockets
  <1>3. Allocation'
    <2>1. \A i, j \in Conns : i > j /\ net[j].health = "unused" => net[i].health = "unused"
      BY <1>0 DEF Allocation
    <2>2. \A i \in Conns : net'[i].health = "unused" <=> stream'[i].stage = "none"
      BY <1>0, <1>1, <1>2 DEF Allocation
    <2>3. \A i, j \in Conns : i > j /\ net'[j].health = "unused" => net'[i].health = "unused"
      <3> SUFFICES ASSUME NEW i \in Conns, NEW j \in Conns, i > j, net'[j].health = "unused"
                   PROVE  net'[i].health = "unused"
        OBVIOUS
      <3>1. j # k /\ net[j].health = "unused"
        BY <1>1
      <3>2. i # k
        BY <1>1, <3>1
      <3> QED BY <1>1, <2>1, <3>1, <3>2
    <2> QED BY <2>2, <2>3 DEF Allocation
  <1>4. Sockets'
    BY <1>0, <1>1, <1>2, Numbers DEF Sockets
  <1>5. EveryLiveStreamIsCurrent'
    BY <1>1, <1>2 DEF ControlInv, EveryLiveStreamIsCurrent, Live, Current, Registered
  <1>6. Announced'
    <2>1. ASSUME NEW i \in Conns, Has(net'[i].s2c, "activated") PROVE stream'[i].stage \in Published
      <3>1. i # k /\ i # client[c].conn
        BY <1>1, <2>1, NoFrame
      <3> QED BY <1>1, <2>1, <3>1 DEF ControlInv, Announced
    <2>2. ASSUME NEW d \in Clients, client'[d].phase = "connected"
          PROVE  stream'[client'[d].conn].stage \in Published
      <3>1. d # c /\ client[d].phase = "connected" /\ client'[d] = client[d]
        BY <1>1, <2>2
      <3>2. client[d].conn \in Conns /\ stream[client[d].conn].stage \in Published
        BY <1>0, <3>1 DEF ControlInv, Announced, Sockets
      <3> QED BY <1>1, <1>2, <3>1, <3>2
    <2> QED BY <2>1, <2>2 DEF Announced
  <1>7. Told'
    <2> SUFFICES ASSUME NEW i \in Conns, stream'[i].stage = "revoked", net'[i].health = "ok",
                        client'[net'[i].owner].conn = i
                 PROVE  Has(net'[i].s2c, "close")
      BY DEF Told, OnSocket, Owner
    <2>1. i # k
      BY <1>1
    <2>2. net[i].owner # c /\ client[net[i].owner].conn = i
      BY <1>0, <1>1, <2>1
    <2>3. i # client[c].conn
      BY <1>0, <2>2, Numbers DEF Sockets
    <2>4. Has(net[i].s2c, "close")
      BY <1>1, <2>1, <2>2 DEF ControlInv, Told, OnSocket, Owner
    <2> QED BY <1>1, <2>1, <2>3, <2>4
  <1>8. NeverStranded'
    BY <1>1 DEF ControlInv, NeverStranded
  <1> QED BY <1>3, <1>4, <1>5, <1>6, <1>7, <1>8 DEF ControlInv

\* The server gives up a stream and tells the client that still listens.
LEMMA ControlRevoke ==
  ASSUME TypeInv, ControlInv, NEW k \in Conns, stream[k].stage \in Registered \cup {"auth"},
         stream'[k].stage = "revoked", StagesAlike(Conns \ {k}),
         reg'.pending = IF reg.pending = k THEN 0 ELSE reg.pending,
         reg'.active = IF reg.active = k THEN 0 ELSE reg.active,
         ClientsAlike(Clients), LinksAlike, NoticesAlike(Conns \ {k}),
         net[k].health = "ok" /\ OnSocket(Owner(k), k) => Has(net'[k].s2c, "close"),
         Has(net'[k].s2c, "activated") => Has(net[k].s2c, "activated")
  PROVE  ControlInv'
  <1> USE DEF ClientsAlike, LinksAlike, NoticesAlike, StagesAlike
  <1>0. /\ \A c \in Clients : client[c].conn # 0 => client[c].conn \in Conns
        /\ \A i \in Conns : net[i].owner \in Clients
    BY Numbers DEF TypeInv, Peers, Links
  <1>1. Allocation'
    BY DEF ControlInv, Allocation, Registered
  <1>2. Sockets'
    BY <1>0 DEF ControlInv, Sockets
  <1>3. EveryLiveStreamIsCurrent'
    BY Numbers DEF ControlInv, EveryLiveStreamIsCurrent, Live, Current, Registered
  <1>4. Announced'
    BY <1>0 DEF ControlInv, Announced, Sockets, Published
  <1>5. Told'
    BY <1>0 DEF ControlInv, Told, OnSocket, Owner
  <1>6. NeverStranded'
    BY DEF ControlInv, NeverStranded
  <1> QED BY <1>1, <1>2, <1>3, <1>4, <1>5, <1>6 DEF ControlInv

\* The server publishes a stream.
LEMMA ControlActivate ==
  ASSUME TypeInv, ControlInv, NEW k \in Conns, stream[k].stage = "handlers",
         stream'[k].stage = "activated", StagesAlike(Conns \ {k}),
         reg'.pending = 0, reg'.active = k,
         ClientsAlike(Clients), LinksAlike, NoticesAlike(Conns \ {k}),
         Has(net[k].s2c, "close") => Has(net'[k].s2c, "close")
  PROVE  ControlInv'
  <1> USE DEF ClientsAlike, LinksAlike, NoticesAlike, StagesAlike
  <1>0. /\ \A c \in Clients : client[c].conn # 0 => client[c].conn \in Conns
        /\ \A i \in Conns : net[i].owner \in Clients
    BY Numbers DEF TypeInv, Peers, Links
  <1>1. Allocation'
    BY DEF ControlInv, Allocation
  <1>2. Sockets'
    BY <1>0 DEF ControlInv, Sockets
  <1>3. EveryLiveStreamIsCurrent'
    BY Numbers DEF ControlInv, EveryLiveStreamIsCurrent, Live, Current, Registered
  <1>4. Announced'
    BY <1>0 DEF ControlInv, Announced, Sockets, Published
  <1>5. Told'
    BY <1>0 DEF ControlInv, Told, OnSocket, Owner
  <1>6. NeverStranded'
    BY DEF ControlInv, NeverStranded
  <1> QED BY <1>1, <1>2, <1>3, <1>4, <1>5, <1>6 DEF ControlInv

\* A new stream takes the client ID over from the stream that held it.
LEMMA ControlEstablish ==
  ASSUME TypeInv, ControlInv, NEW k \in Conns, stream[k].stage = "auth",
         stream'[k].stage = "check", StagesAlike(Conns \ {k, Current}),
         Current # 0 => stream'[Current].stage = "revoked",
         reg'.pending = k, reg'.active = IF reg.active = Current THEN 0 ELSE reg.active,
         ClientsAlike(Clients), LinksAlike, NoticesAlike(Conns \ {Current}),
         Current # 0 /\ net[Current].health = "ok" /\ OnSocket(Owner(Current), Current)
            => Has(net'[Current].s2c, "close"),
         Current # 0 /\ Has(net'[Current].s2c, "activated") => Has(net[Current].s2c, "activated")
  PROVE  ControlInv'
  <1> USE DEF ClientsAlike, LinksAlike, NoticesAlike, StagesAlike
  <1> DEFINE old == Current
  <1>0. /\ \A c \in Clients : client[c].conn # 0 => client[c].conn \in Conns
        /\ \A i \in Conns : net[i].owner \in Clients
        /\ old # 0 => old \in Conns
        /\ 0 \notin Conns
    BY Numbers DEF TypeInv, Peers, Links, Current
  <1>1. /\ old # k
        /\ old # 0 => stream[old].stage \in Registered
        /\ \A i \in Conns : stream[i].stage \in Registered => i = old
        /\ reg.active # 0 => reg.active = old
    <2>1. reg.active \in 0..MaxConns /\ reg.pending \in 0..MaxConns
      BY DEF TypeInv
    <2> QED BY <1>0, <2>1, Numbers DEF ControlInv, EveryLiveStreamIsCurrent, Live, Current, Registered
  <1>2. Allocation'
    BY <1>0, <1>1 DEF ControlInv, Allocation, Registered
  <1>3. Sockets'
    BY <1>0 DEF ControlInv, Sockets
  <1>4. EveryLiveStreamIsCurrent'
    <2>1. reg'.active = 0
      BY <1>1
    <2>2. ASSUME NEW i \in Conns, i # k PROVE stream'[i].stage \notin Registered
      <3>1. CASE i = old
        <4>1. Current # 0 /\ stream'[i].stage = "revoked"
          BY <1>0, <3>1
        <4> QED BY <4>1 DEF Registered
      <3>2. CASE i # old
        <4>1. stream'[i].stage = stream[i].stage
          BY <2>2, <3>2
        <4> QED BY <1>1, <3>2, <4>1
      <3> QED BY <3>1, <3>2
    <2> QED BY <1>0, <2>1, <2>2 DEF EveryLiveStreamIsCurrent, Live, Current, Registered
  <1>5. Announced'
    BY <1>0, <1>1 DEF ControlInv, Announced, Sockets, Published, Registered
  <1>6. Told'
    BY <1>0, <1>1 DEF ControlInv, Told, OnSocket, Owner
  <1>7. NeverStranded'
    BY DEF ControlInv, NeverStranded
  <1> QED BY <1>2, <1>3, <1>4, <1>5, <1>6, <1>7 DEF ControlInv

\* The network loses a connection.
LEMMA ControlBreak ==
  ASSUME TypeInv, ControlInv, NEW k \in Conns, net[k].health = "ok", net'[k].health = "broken",
         net'[k].owner = net[k].owner, net'[k].s2c = <<>>, \A i \in Conns \ {k} : net'[i] = net[i],
         client' = client, stream' = stream, reg' = reg
  PROVE  ControlInv'
  <1>0. /\ \A c \in Clients : client[c].conn # 0 => client[c].conn \in Conns
        /\ \A i \in Conns : net[i].owner \in Clients
    BY Numbers DEF TypeInv, Peers, Links
  <1>1. Allocation'
    BY DEF ControlInv, Allocation
  <1>2. Sockets'
    BY <1>0 DEF ControlInv, Sockets
  <1>3. EveryLiveStreamIsCurrent'
    BY DEF ControlInv, EveryLiveStreamIsCurrent, Live, Current
  <1>4. Announced'
    BY NoFrame DEF ControlInv, Announced
  <1>5. Told'
    BY <1>0 DEF ControlInv, Told, OnSocket, Owner
  <1>6. NeverStranded'
    BY DEF ControlInv, NeverStranded
  <1> QED BY <1>1, <1>2, <1>3, <1>4, <1>5, <1>6 DEF ControlInv

-----------------------------------------------------------------------------
(***************************************************************************)
(* The other steps, field by field.                                        *)
(***************************************************************************)

\* A frame is received by the client.
LEMMA PopDownEffect ==
  ASSUME TypeInv, NEW k \in Conns, net[k].s2c # <<>>, net' = PopDown(k)
  PROVE  /\ net' \in [Conns -> Links] /\ LinksAlike
         /\ \A i \in Conns \ {k} : net'[i] = net[i]
         /\ net'[k].c2s = net[k].c2s /\ net'[k].s2c = Tail(net[k].s2c)
         /\ Fewer(net[k].s2c, net'[k].s2c)
         /\ Head(net[k].s2c) \in DownFrames
         /\ Head(net[k].s2c).t # "close" => NoticesAlike(Conns)
         /\ Head(net[k].s2c).t = "activated" => Has(net[k].s2c, "activated")
  <1>1. /\ net' \in [Conns -> Links] /\ \A i \in Conns \ {k} : net'[i] = net[i]
        /\ net'[k].c2s = net[k].c2s /\ net'[k].s2c = Tail(net[k].s2c)
        /\ net'[k].owner = net[k].owner /\ net'[k].health = net[k].health
    BY PopType
  <1>2. LinksAlike
    BY <1>1 DEF LinksAlike
  <1> DEFINE x == net[k].s2c
  <1>3. x \in Seq(DownFrames) /\ x # <<>>
    BY DEF TypeInv, Links
  <1> HIDE DEF x
  <1>4. /\ Head(x) \in DownFrames /\ Fewer(x, Tail(x))
        /\ Has(Tail(x), "activated") => Has(x, "activated")
        /\ Has(x, "close") => Has(Tail(x), "close") \/ Head(x).t = "close"
        /\ Head(x).t = "activated" => Has(x, "activated")
    BY <1>3, TailFrame, FewerFrames
  <1>5. Head(x).t # "close" => NoticesAlike(Conns)
    BY <1>1, <1>4 DEF NoticesAlike, x
  <1> QED BY <1>1, <1>2, <1>4, <1>5 DEF x

\* A frame is received by the server.
LEMMA PopUpEffect ==
  ASSUME TypeInv, NEW k \in Conns, net[k].c2s # <<>>
  PROVE  /\ PopUp(k) \in [Conns -> Links]
         /\ \A i \in Conns : /\ i # k => PopUp(k)[i] = net[i]
                             /\ PopUp(k)[i].owner = net[i].owner /\ PopUp(k)[i].health = net[i].health
                             /\ PopUp(k)[i].s2c = net[i].s2c
         /\ PopUp(k)[k].c2s = Tail(net[k].c2s)
         /\ Fewer(net[k].c2s, PopUp(k)[k].c2s)
         /\ Head(net[k].c2s) \in UpFrames
  <1>1. /\ PopUp(k) \in [Conns -> Links] /\ \A i \in Conns \ {k} : PopUp(k)[i] = net[i]
        /\ PopUp(k)[k].s2c = net[k].s2c /\ PopUp(k)[k].c2s = Tail(net[k].c2s)
        /\ PopUp(k)[k].owner = net[k].owner /\ PopUp(k)[k].health = net[k].health
    BY PopType
  <1> DEFINE x == net[k].c2s
  <1>2. x \in Seq(UpFrames) /\ x # <<>>
    BY DEF TypeInv, Links
  <1> HIDE DEF x
  <1>3. Head(x) \in UpFrames /\ Fewer(x, Tail(x))
    BY <1>2, TailFrame, FewerFrames
  <1> QED BY <1>1, <1>3 DEF x

\* A client's record changes in one field.
LEMMA PeerField ==
  ASSUME NEW p \in Peers
  PROVE  /\ \A x \in Phases : LET r == [p EXCEPT !.phase = x] IN
              /\ r \in Peers /\ r.conn = p.conn /\ r.phase = x /\ r.enable = p.enable /\ r.timer = p.timer
              /\ r.running = p.running /\ r.unacked = p.unacked /\ r.late = p.late
         /\ \A x \in SUBSET ServerCalls : LET r == [p EXCEPT !.unacked = x] IN
              /\ r \in Peers /\ r.conn = p.conn /\ r.phase = p.phase /\ r.enable = p.enable /\ r.timer = p.timer
              /\ r.running = p.running /\ r.unacked = x /\ r.late = p.late
         /\ \A x \in SUBSET ClientCalls : LET r == [p EXCEPT !.late = x] IN
              /\ r \in Peers /\ r.conn = p.conn /\ r.phase = p.phase /\ r.enable = p.enable /\ r.timer = p.timer
              /\ r.running = p.running /\ r.unacked = p.unacked /\ r.late = x
         /\ LET r == [p EXCEPT !.phase = "connected", !.established = TRUE] IN
              /\ r \in Peers /\ r.conn = p.conn /\ r.phase = "connected" /\ r.enable = p.enable /\ r.timer = p.timer
              /\ r.running = p.running /\ r.unacked = p.unacked /\ r.late = p.late
  <1>1. \A x \in Phases : LET r == [p EXCEPT !.phase = x] IN
              /\ r \in Peers /\ r.conn = p.conn /\ r.phase = x /\ r.enable = p.enable /\ r.timer = p.timer
              /\ r.running = p.running /\ r.unacked = p.unacked /\ r.late = p.late
    BY DEF Peers
  <1>2. \A x \in SUBSET ServerCalls : LET r == [p EXCEPT !.unacked = x] IN
              /\ r \in Peers /\ r.conn = p.conn /\ r.phase = p.phase /\ r.enable = p.enable /\ r.timer = p.timer
              /\ r.running = p.running /\ r.unacked = x /\ r.late = p.late
    BY DEF Peers
  <1>3. \A x \in SUBSET ClientCalls : LET r == [p EXCEPT !.late = x] IN
              /\ r \in Peers /\ r.conn = p.conn /\ r.phase = p.phase /\ r.enable = p.enable /\ r.timer = p.timer
              /\ r.running = p.running /\ r.unacked = p.unacked /\ r.late = x
    BY DEF Peers
  <1>4. LET r == [p EXCEPT !.phase = "connected", !.established = TRUE] IN
              /\ r \in Peers /\ r.conn = p.conn /\ r.phase = "connected" /\ r.enable = p.enable /\ r.timer = p.timer
              /\ r.running = p.running /\ r.unacked = p.unacked /\ r.late = p.late
    BY DEF Peers, Phases
  <1> QED BY <1>1, <1>2, <1>3, <1>4

\* A client's record is replaced.
LEMMA PeerStep ==
  ASSUME TypeInv, NEW c \in Clients, NEW r \in Peers, client' = [client EXCEPT ![c] = r]
  PROVE  /\ client' \in [Clients -> Peers] /\ client'[c] = r
         /\ \A d \in Clients \ {c} : client'[d] = client[d]
  BY DEF TypeInv

\* One call changes.
LEMMA CallField ==
  ASSUME TypeInv, NEW q \in Calls
  PROVE  /\ \A x \in Statuses : LET f == Set(q, x) IN
              /\ f \in [Calls -> Outcomes] /\ \A p \in Calls \ {q} : f[p] = call[p]
              /\ f[q].st = x /\ f[q].conn = call[q].conn /\ f[q].runs = call[q].runs
         /\ \A k \in Conns : LET f == [call EXCEPT ![q] = [call[q] EXCEPT !.st = "sent", !.conn = k]] IN
              /\ f \in [Calls -> Outcomes] /\ \A p \in Calls \ {q} : f[p] = call[p]
              /\ f[q].st = "sent" /\ f[q].conn = k /\ f[q].runs = call[q].runs
         /\ LET f == [call EXCEPT ![q].runs = @ + 1] IN
              /\ f \in [Calls -> Outcomes] /\ \A p \in Calls \ {q} : f[p] = call[p]
              /\ f[q].st = call[q].st /\ f[q].conn = call[q].conn /\ f[q].runs = call[q].runs + 1
  <1>0. call \in [Calls -> Outcomes] /\ call[q] \in Outcomes /\ Conns \subseteq 0..MaxConns
    BY Numbers DEF TypeInv
  <1>1. ASSUME NEW x \in Statuses
        PROVE  LET f == Set(q, x) IN
               /\ f \in [Calls -> Outcomes] /\ \A p \in Calls \ {q} : f[p] = call[p]
               /\ f[q].st = x /\ f[q].conn = call[q].conn /\ f[q].runs = call[q].runs
    <2> DEFINE o == [call[q] EXCEPT !.st = x]
    <2>1. o \in Outcomes /\ o.st = x /\ o.conn = call[q].conn /\ o.runs = call[q].runs
      BY <1>0 DEF Outcomes
    <2>2. Set(q, x) = [call EXCEPT ![q] = o]
      BY DEF Set
    <2> HIDE DEF o
    <2> QED BY <1>0, <2>1, <2>2
  <1>2. ASSUME NEW k \in Conns
        PROVE  LET f == [call EXCEPT ![q] = [call[q] EXCEPT !.st = "sent", !.conn = k]] IN
               /\ f \in [Calls -> Outcomes] /\ \A p \in Calls \ {q} : f[p] = call[p]
               /\ f[q].st = "sent" /\ f[q].conn = k /\ f[q].runs = call[q].runs
    <2> DEFINE o == [call[q] EXCEPT !.st = "sent", !.conn = k]
    <2>0. k \in 0..MaxConns /\ "sent" \in Statuses
      BY <1>0 DEF Statuses
    <2>1. o \in Outcomes /\ o.st = "sent" /\ o.conn = k /\ o.runs = call[q].runs
      BY <1>0, <2>0 DEF Outcomes
    <2> HIDE DEF o
    <2>2. LET f == [call EXCEPT ![q] = o] IN
          /\ f \in [Calls -> Outcomes] /\ \A p \in Calls \ {q} : f[p] = call[p]
          /\ f[q] = o
      BY <1>0, <2>1
    <2> QED BY <2>1, <2>2 DEF o
  <1>3. LET f == [call EXCEPT ![q].runs = @ + 1] IN
        /\ f \in [Calls -> Outcomes] /\ \A p \in Calls \ {q} : f[p] = call[p]
        /\ f[q].st = call[q].st /\ f[q].conn = call[q].conn /\ f[q].runs = call[q].runs + 1
    <2> DEFINE o == [call[q] EXCEPT !.runs = call[q].runs + 1]
    <2>0. call[q].runs + 1 \in Nat
      BY <1>0 DEF Outcomes
    <2>1. o \in Outcomes /\ o.runs = call[q].runs + 1 /\ o.conn = call[q].conn /\ o.st = call[q].st
      BY <1>0, <2>0 DEF Outcomes
    <2>2. [call EXCEPT ![q].runs = @ + 1] = [call EXCEPT ![q] = o]
      OBVIOUS
    <2> HIDE DEF o
    <2> QED BY <1>0, <2>1, <2>2
  <1> QED BY <1>1, <1>2, <1>3

\* A stream's record changes in one field.
LEMMA StreamField ==
  ASSUME NEW w \in Streams
  PROVE  /\ \A x \in Stages : LET r == [w EXCEPT !.stage = x] IN
              /\ r \in Streams /\ r.stage = x /\ r.queue = w.queue /\ r.running = w.running
              /\ r.acked = w.acked /\ r.late = w.late
         /\ \A x \in Seq(ClientCalls) : LET r == [w EXCEPT !.queue = x] IN
              /\ r \in Streams /\ r.stage = w.stage /\ r.queue = x /\ r.running = w.running
              /\ r.acked = w.acked /\ r.late = w.late
         /\ \A x \in SUBSET ClientCalls : LET r == [w EXCEPT !.running = x] IN
              /\ r \in Streams /\ r.stage = w.stage /\ r.queue = w.queue /\ r.running = x
              /\ r.acked = w.acked /\ r.late = w.late
         /\ \A x \in SUBSET ServerCalls : LET r == [w EXCEPT !.acked = x] IN
              /\ r \in Streams /\ r.stage = w.stage /\ r.queue = w.queue /\ r.running = w.running
              /\ r.late = w.late
         /\ \A x \in SUBSET ServerCalls : LET r == [w EXCEPT !.late = x] IN
              /\ r \in Streams /\ r.stage = w.stage /\ r.queue = w.queue /\ r.running = w.running
              /\ r.late = x
  <1>1. \A x \in Stages : LET r == [w EXCEPT !.stage = x] IN
              /\ r \in Streams /\ r.stage = x /\ r.queue = w.queue /\ r.running = w.running
              /\ r.acked = w.acked /\ r.late = w.late
    BY DEF Streams
  <1>2. \A x \in Seq(ClientCalls) : LET r == [w EXCEPT !.queue = x] IN
              /\ r \in Streams /\ r.stage = w.stage /\ r.queue = x /\ r.running = w.running
              /\ r.acked = w.acked /\ r.late = w.late
    BY DEF Streams
  <1>3. \A x \in SUBSET ClientCalls : LET r == [w EXCEPT !.running = x] IN
              /\ r \in Streams /\ r.stage = w.stage /\ r.queue = w.queue /\ r.running = x
              /\ r.acked = w.acked /\ r.late = w.late
    BY DEF Streams
  <1>4. \A x \in SUBSET ServerCalls : LET r == [w EXCEPT !.acked = x] IN
              /\ r \in Streams /\ r.stage = w.stage /\ r.queue = w.queue /\ r.running = w.running
              /\ r.late = w.late
    BY DEF Streams
  <1>5. \A x \in SUBSET ServerCalls : LET r == [w EXCEPT !.late = x] IN
              /\ r \in Streams /\ r.stage = w.stage /\ r.queue = w.queue /\ r.running = w.running
              /\ r.late = x
    BY DEF Streams
  <1> QED BY <1>1, <1>2, <1>3, <1>4, <1>5

\* A stream's record is replaced.
LEMMA StreamStep ==
  ASSUME TypeInv, NEW k \in Conns, NEW r \in Streams, stream' = [stream EXCEPT ![k] = r]
  PROVE  /\ stream' \in [Conns -> Streams] /\ stream'[k] = r
         /\ \A i \in Conns \ {k} : stream'[i] = stream[i]
  BY DEF TypeInv

\* A client writes a frame.
LEMMA UpEffect ==
  ASSUME TypeInv, NEW k \in Conns, NEW m \in UpFrames, net' = Up(net, k, m)
  PROVE  /\ net' \in [Conns -> Links] /\ LinksAlike /\ NoticesAlike(Conns)
         /\ \A i \in Conns \ {k} : net'[i] = net[i]
         /\ net'[k].s2c = net[k].s2c
         /\ net'[k].c2s = Append(net[k].c2s, m) \/ net'[k].c2s = net[k].c2s
  <1>1. net \in [Conns -> Links]
    BY DEF TypeInv
  <1>2. /\ net' \in [Conns -> Links]
        /\ \A i \in Conns : /\ net'[i].owner = net[i].owner /\ net'[i].health = net[i].health
                            /\ net'[i].s2c = net[i].s2c
                            /\ i # k => net'[i] = net[i]
        /\ net'[k].c2s = Append(net[k].c2s, m) \/ net'[k].c2s = net[k].c2s
    BY <1>1, UpType, ZenonT(60)
  <1> QED BY <1>2 DEF LinksAlike, NoticesAlike

\* The server writes a frame.
LEMMA DownEffect ==
  ASSUME TypeInv, NEW k \in Conns, NEW m \in DownFrames, m.t # "activated", net' = Down(net, k, m)
  PROVE  /\ net' \in [Conns -> Links] /\ LinksAlike /\ NoticesAlike(Conns)
         /\ \A i \in Conns \ {k} : net'[i] = net[i]
         /\ net'[k].c2s = net[k].c2s
         /\ net'[k].s2c = Append(net[k].s2c, m) \/ net'[k].s2c = net[k].s2c
  <1> DEFINE x == net[k].s2c
  <1>1. net \in [Conns -> Links] /\ x \in Seq(DownFrames)
    BY DEF TypeInv, Links
  <1>2. /\ net' \in [Conns -> Links]
        /\ \A i \in Conns : /\ net'[i].owner = net[i].owner /\ net'[i].health = net[i].health
                            /\ net'[i].c2s = net[i].c2s
                            /\ i # k => net'[i] = net[i]
        /\ net'[k].s2c = Append(x, m) \/ net'[k].s2c = x
    BY <1>1, DownType, ZenonT(60)
  <1> HIDE DEF x
  <1>3. /\ Has(x, "close") => Has(Append(x, m), "close")
        /\ Has(Append(x, m), "activated") => Has(x, "activated")
    BY <1>1, AppendFrame
  <1>4. LinksAlike
    BY <1>2 DEF LinksAlike
  <1>5. NoticesAlike(Conns)
    BY <1>2, <1>3 DEF NoticesAlike, x
  <1> QED BY <1>2, <1>4, <1>5 DEF x

\* A client changes phase.
LEMMA PhaseEffect ==
  ASSUME TypeInv, NEW c \in Clients, NEW p \in Phases,
         \/ client' = [client EXCEPT ![c].phase = p]
         \/ p = "connected" /\ client' = [client EXCEPT ![c] = [client[c] EXCEPT !.phase = "connected", !.established = TRUE]]
  PROVE  /\ client' \in [Clients -> Peers] /\ \A d \in Clients \ {c} : client'[d] = client[d]
         /\ client'[c].phase = p /\ client'[c].conn = client[c].conn
         /\ client'[c].running = client[c].running /\ client'[c].unacked = client[c].unacked
         /\ client'[c].late = client[c].late
  <1>0. client[c] \in Peers
    BY DEF TypeInv
  <1>1. CASE client' = [client EXCEPT ![c].phase = p]
    <2> DEFINE r == [client[c] EXCEPT !.phase = p]
    <2>1. /\ r \in Peers /\ r.conn = client[c].conn /\ r.phase = p /\ r.running = client[c].running
          /\ r.unacked = client[c].unacked /\ r.late = client[c].late
      BY <1>0, PeerField
    <2>2. client' = [client EXCEPT ![c] = r]
      BY <1>1
    <2> HIDE DEF r
    <2> QED BY <2>1, <2>2, PeerStep
  <1>2. CASE p = "connected" /\ client' = [client EXCEPT ![c] = [client[c] EXCEPT !.phase = "connected", !.established = TRUE]]
    <2> DEFINE r == [client[c] EXCEPT !.phase = "connected", !.established = TRUE]
    <2>1. /\ r \in Peers /\ r.conn = client[c].conn /\ r.phase = "connected" /\ r.running = client[c].running
          /\ r.unacked = client[c].unacked /\ r.late = client[c].late
      BY <1>0, PeerField
    <2>2. client' = [client EXCEPT ![c] = r]
      BY <1>2
    <2> HIDE DEF r
    <2> QED BY <1>2, <2>1, <2>2, PeerStep
  <1> QED BY <1>1, <1>2

\* The handler of a server request starts or ends, or its receipt is sent.
LEMMA HandlersEffect ==
  ASSUME TypeInv, NEW c \in Clients, NEW x \in SUBSET ServerCalls, NEW y \in SUBSET ServerCalls,
         client' = [client EXCEPT ![c] = [client[c] EXCEPT !.running = x, !.unacked = y]]
  PROVE  /\ client' \in [Clients -> Peers] /\ ClientsAlike(Clients)
         /\ \A d \in Clients \ {c} : client'[d] = client[d]
         /\ client'[c].running = x /\ client'[c].unacked = y /\ client'[c].late = client[c].late
  <1> DEFINE r == [client[c] EXCEPT !.running = x, !.unacked = y]
  <1>0. client[c] \in Peers
    BY DEF TypeInv
  <1>1. /\ r \in Peers /\ r.conn = client[c].conn /\ r.phase = client[c].phase /\ r.enable = client[c].enable
        /\ r.timer = client[c].timer /\ r.running = x /\ r.unacked = y /\ r.late = client[c].late
    BY <1>0 DEF Peers
  <1>2. client' = [client EXCEPT ![c] = r]
    OBVIOUS
  <1> HIDE DEF r
  <1>3. client' \in [Clients -> Peers] /\ client'[c] = r /\ \A d \in Clients \ {c} : client'[d] = client[d]
    BY <1>1, <1>2, PeerStep
  <1> QED BY <1>1, <1>3 DEF ClientsAlike

\* A tombstone is added or expires.
LEMMA LateEffect ==
  ASSUME TypeInv, NEW c \in Clients, NEW x \in SUBSET ClientCalls,
         client' = [client EXCEPT ![c].late = x]
  PROVE  /\ client' \in [Clients -> Peers] /\ ClientsAlike(Clients)
         /\ \A d \in Clients \ {c} : client'[d] = client[d]
         /\ client'[c].running = client[c].running /\ client'[c].unacked = client[c].unacked
         /\ client'[c].late = x
  <1> DEFINE r == [client[c] EXCEPT !.late = x]
  <1>0. client[c] \in Peers
    BY DEF TypeInv
  <1>1. /\ r \in Peers /\ r.conn = client[c].conn /\ r.phase = client[c].phase /\ r.enable = client[c].enable
        /\ r.timer = client[c].timer /\ r.running = client[c].running /\ r.unacked = client[c].unacked
        /\ r.late = x
    BY <1>0, PeerField, ZenonT(60)
  <1>2. client' = [client EXCEPT ![c] = r]
    OBVIOUS
  <1> HIDE DEF r
  <1>3. client' \in [Clients -> Peers] /\ client'[c] = r /\ \A d \in Clients \ {c} : client'[d] = client[d]
    BY <1>1, <1>2, PeerStep
  <1> QED BY <1>1, <1>3 DEF ClientsAlike

\* A receipt is written.
LEMMA UnackedEffect ==
  ASSUME TypeInv, NEW c \in Clients, NEW x \in SUBSET ServerCalls,
         client' = [client EXCEPT ![c].unacked = x]
  PROVE  /\ client' \in [Clients -> Peers] /\ ClientsAlike(Clients)
         /\ \A d \in Clients \ {c} : client'[d] = client[d]
         /\ client'[c].running = client[c].running /\ client'[c].unacked = x
         /\ client'[c].late = client[c].late
  <1> DEFINE r == [client[c] EXCEPT !.unacked = x]
  <1>0. client[c] \in Peers
    BY DEF TypeInv
  <1>1. /\ r \in Peers /\ r.conn = client[c].conn /\ r.phase = client[c].phase /\ r.enable = client[c].enable
        /\ r.timer = client[c].timer /\ r.running = client[c].running /\ r.unacked = x
        /\ r.late = client[c].late
    BY <1>0, PeerField, ZenonT(60)
  <1>2. client' = [client EXCEPT ![c] = r]
    OBVIOUS
  <1> HIDE DEF r
  <1>3. client' \in [Clients -> Peers] /\ client'[c] = r /\ \A d \in Clients \ {c} : client'[d] = client[d]
    BY <1>1, <1>2, PeerStep
  <1> QED BY <1>1, <1>3 DEF ClientsAlike

-----------------------------------------------------------------------------
(***************************************************************************)
(* Types and control are kept by every step.                               *)
(***************************************************************************)

\* A client without a socket runs no handler.
IdleClients == \A c \in Clients : client[c].conn = 0 => client[c].running = {} /\ client[c].unacked = {}

SafeInv == TypeInv /\ ControlInv /\ IdleClients

\* A step that leaves clients, links or streams as they are.
LEMMA Untouched ==
  /\ client' = client => ClientsAlike(Clients) /\ (IdleClients => IdleClients')
  /\ net' = net => LinksAlike /\ NoticesAlike(Conns)
  /\ stream' = stream => StagesAlike(Conns)
  BY DEF ClientsAlike, LinksAlike, NoticesAlike, StagesAlike, IdleClients

\* The sockets of clients are connections.
LEMMA SocketType ==
  ASSUME SafeInv, NEW c \in Clients
  PROVE  /\ client[c].conn # 0 <=> client[c].conn \in Conns
         /\ client[c].phase \in {"opening", "open", "activating", "connected"} => client[c].conn # 0
         /\ client[c].conn # 0 => net[client[c].conn].owner = c
  <1>1. client[c].conn \in 0..MaxConns
    BY DEF SafeInv, TypeInv, Peers
  <1> QED BY <1>1, Numbers DEF SafeInv, ControlInv, Sockets

\* A client gives up its connection.
LEMMA SafeLeave ==
  ASSUME SafeInv, NEW c \in Clients, NEW cause, NEW suppress \in BOOLEAN,
         NEW n \in [Conns -> Links], client[c].conn # 0, Goodbye(n, client[c].conn),
         suppress => cause = "conflict", revokeGeneration(c, cause, suppress, n),
         faults' \in Nat, blamed' \in SUBSET Nat
  PROVE  SafeInv'
  <1>0. client[c].conn \in Conns /\ TypeInv /\ ControlInv
    BY SocketType DEF SafeInv
  <1>1. /\ client' \in [Clients -> Peers]
        /\ \A d \in Clients \ {c} : client'[d] = client[d]
        /\ client'[c].conn = 0 /\ client'[c].running = {} /\ client'[c].unacked = {}
        /\ client'[c].phase = IF cause = "conflict" THEN "conflict" ELSE "closed"
        /\ client'[c].enable = client[c].enable
        /\ client[c].enable /\ ~suppress => client'[c].timer
    BY <1>0, RevokeEffect
  <1>2. /\ net' \in [Conns -> Links] /\ net'[client[c].conn].s2c = <<>>
        /\ \A i \in Conns : /\ net'[i].owner = net[i].owner /\ net'[i].health = net[i].health
                            /\ i # client[c].conn => net'[i] = net[i]
        /\ call' \in [Calls -> Outcomes]
        /\ UNCHANGED <<stream, reg, expired>>
    <2>1. /\ SocketDropped(client[c].conn) /\ call' \in [Calls -> Outcomes]
          /\ UNCHANGED <<stream, reg, expired>>
      BY <1>0, RevokeEffect
    <2> QED BY <2>1 DEF SocketDropped
  <1>3. TypeInv'
    BY <1>0, <1>1, <1>2 DEF TypeInv
  <1>4. /\ client'[c].phase \in {"idle", "closed", "conflict"}
        /\ client'[c].phase = "closed" /\ client'[c].enable => client'[c].timer
    BY Zenon, <1>1
  <1>5. /\ ClientsAlike(Clients \ {c}) /\ LinksAlike /\ NoticesAlike(Conns \ {client[c].conn})
        /\ StagesAlike(Conns)
    BY <1>1, <1>2 DEF ClientsAlike, LinksAlike, NoticesAlike, StagesAlike
  <1>6. ControlInv'
    BY <1>0, <1>1, <1>2, <1>4, <1>5, ControlLeave
  <1>7. IdleClients'
    BY <1>1 DEF SafeInv, IdleClients
  <1> QED BY <1>3, <1>6, <1>7 DEF SafeInv

\* A client starts a generation.
LEMMA SafeStart ==
  ASSUME SafeInv, NEW c \in Clients, NEW supersede \in BOOLEAN, StartGeneration(c, supersede),
         faults' \in Nat
  PROVE  SafeInv'
  <1>0. TypeInv /\ ControlInv /\ Allocation /\ Sockets
    BY DEF SafeInv, ControlInv
  <1>1. /\ client' \in [Clients -> Peers] /\ net' \in [Conns -> Links] /\ stream' \in [Conns -> Streams]
        /\ call' \in [Calls -> Outcomes] /\ UNCHANGED <<reg, expired, blamed>>
    BY <1>0, StartEffect
  <1>2. TypeInv'
    BY <1>0, <1>1 DEF TypeInv
  <1>3. IdleClients'
    <2>1. client'[c].conn # 0 /\ \A d \in Clients \ {c} : client'[d] = client[d]
      BY <1>0, Numbers, StartEffect
    <2> QED BY <2>1 DEF SafeInv, IdleClients
  <1> QED BY <1>0, <1>2, <1>3, ControlStart DEF SafeInv

\* disconnect().
LEMMA SafeDisconnect ==
  ASSUME SafeInv, NEW c \in Clients, disconnect(c)
  PROVE  SafeInv'
  <1> DEFINE k == client[c].conn
             R == IF k = 0 THEN client[c].phase ELSE "closed"
             L == IF k = 0 THEN client[c].late ELSE client[c].late \cup Waiting(k, ClientCalls)
             gone == [client[c] EXCEPT !.conn = 0, !.running = {}, !.unacked = {}, !.enable = FALSE, !.timer = FALSE,
                                       !.phase = R, !.late = L]
             n == Up(net, k, Close("disconnect"))
  <1>0. /\ TypeInv /\ ControlInv /\ client[c] \in Peers /\ faults \in Nat
        /\ client[c].phase \in Phases /\ client[c].late \in SUBSET ClientCalls
    BY DEF SafeInv, TypeInv, Peers
  <1>1. /\ client' = [client EXCEPT ![c] = gone]
        /\ net' = IF k = 0 THEN net ELSE [n EXCEPT ![k].s2c = <<>>]
        /\ call' = IF k = 0 THEN call ELSE Abandon(Waiting(k, ClientCalls))
        /\ faults' = faults + 1 /\ UNCHANGED <<stream, reg, expired, blamed>>
    BY DEF disconnect, Fault
  <1>2. R \in Phases /\ L \in SUBSET ClientCalls /\ 0 \in 0..MaxConns
    BY <1>0, WaitingType, Numbers DEF Phases
  <1>3. /\ k = 0 => R \in {"idle", "closed", "conflict"}
        /\ k # 0 => R = "closed"
    BY DEF SafeInv, ControlInv, Sockets
  <1> HIDE DEF R, L
  <1>4. /\ gone \in Peers /\ gone.conn = 0 /\ gone.phase = R /\ gone.enable = FALSE
        /\ gone.running = {} /\ gone.unacked = {}
    BY <1>0, <1>2 DEF Peers
  <1> HIDE DEF gone
  <1>5. client' \in [Clients -> Peers] /\ client'[c] = gone /\ \A d \in Clients \ {c} : client'[d] = client[d]
    BY <1>0, <1>1, <1>4, PeerStep
  <1>6. /\ net' \in [Conns -> Links] /\ (k # 0 => net'[k].s2c = <<>>)
        /\ \A i \in Conns : /\ net'[i].owner = net[i].owner /\ net'[i].health = net[i].health
                            /\ i # k => net'[i] = net[i]
    <2>1. CASE k = 0
      BY <1>0, <1>1, <2>1, Numbers DEF TypeInv
    <2>2. CASE k # 0
      <3>1. k \in Conns /\ net \in [Conns -> Links]
        BY <1>0, <2>2, SocketType DEF TypeInv
      <3>2. /\ n \in [Conns -> Links]
            /\ \A i \in Conns : /\ n[i].owner = net[i].owner /\ n[i].health = net[i].health
                                /\ i # k => n[i] = net[i]
        BY <3>1, UpNotice DEF Causes
      <3> HIDE DEF n
      <3>3. /\ [n EXCEPT ![k].s2c = <<>>] \in [Conns -> Links]
            /\ \A i \in Conns : /\ i # k => [n EXCEPT ![k].s2c = <<>>][i] = n[i]
                                /\ [n EXCEPT ![k].s2c = <<>>][i].owner = n[i].owner
                                /\ [n EXCEPT ![k].s2c = <<>>][i].health = n[i].health
            /\ [n EXCEPT ![k].s2c = <<>>][k].s2c = <<>>
        BY <3>1, <3>2, ClearType, ZenonT(60)
      <3>4. net' = [n EXCEPT ![k].s2c = <<>>]
        BY <1>1, <2>2
      <3>5. /\ net' \in [Conns -> Links] /\ net'[k].s2c = <<>>
            /\ \A i \in Conns : /\ net'[i].owner = n[i].owner /\ net'[i].health = n[i].health
                                /\ i # k => net'[i] = n[i]
        BY Zenon, <3>3, <3>4
      <3> QED BY <3>2, <3>5
    <2> QED BY <2>1, <2>2
  <1>7. call' \in [Calls -> Outcomes]
    BY <1>0, <1>1, AbandonType DEF TypeInv
  <1>8. TypeInv'
    BY <1>0, <1>1, <1>5, <1>6, <1>7 DEF TypeInv
  <1>9. /\ ClientsAlike(Clients \ {c}) /\ LinksAlike /\ NoticesAlike(Conns \ {k}) /\ StagesAlike(Conns)
    BY <1>1, <1>5, <1>6 DEF ClientsAlike, LinksAlike, NoticesAlike, StagesAlike
  <1>10. /\ client'[c].conn = 0 /\ client'[c].phase \in {"idle", "closed", "conflict"}
         /\ client'[c].phase = "closed" /\ client'[c].enable => client'[c].timer
    BY <1>3, <1>4, <1>5
  <1>11. ControlInv'
    BY <1>0, <1>1, <1>6, <1>9, <1>10, ControlLeave
  <1>12. IdleClients'
    BY <1>4, <1>5 DEF SafeInv, IdleClients
  <1> QED BY <1>8, <1>11, <1>12 DEF SafeInv

\* A step about requests only.
LEMMA SafeQuiet ==
  ASSUME SafeInv, client' \in [Clients -> Peers], ClientsAlike(Clients), net' \in [Conns -> Links],
         LinksAlike, NoticesAlike(Conns), stream' \in [Conns -> Streams], StagesAlike(Conns), reg' = reg,
         call' \in [Calls -> Outcomes], faults' \in Nat, expired' \in SUBSET Nat, blamed' \in SUBSET Nat,
         IdleClients'
  PROVE  SafeInv'
  <1>1. TypeInv'
    BY DEF SafeInv, TypeInv
  <1>2. ControlInv'
    BY ControlQuiet DEF SafeInv
  <1> QED BY <1>1, <1>2 DEF SafeInv

\* closeGenerationWithError().
LEMMA SafeClose ==
  ASSUME SafeInv, NEW c \in Clients, NEW q \in Nat, client[c].conn # 0,
         closeGenerationWithError(c, q), faults' \in Nat
  PROVE  SafeInv'
  <1> DEFINE n == Up(net, client[c].conn, Close("badArg"))
  <1>1. client[c].conn \in Conns /\ TypeInv
    BY SocketType DEF SafeInv
  <1>2. Goodbye(n, client[c].conn)
    BY <1>1, GoodbyeCases DEF Causes
  <1>3. n \in [Conns -> Links]
    BY <1>2 DEF Goodbye
  <1>4. revokeGeneration(c, "badArg", FALSE, n) /\ blamed' \in SUBSET Nat
    BY <1>1 DEF closeGenerationWithError, TypeInv
  <1> HIDE DEF n
  <1> QED BY <1>2, <1>3, <1>4, SafeLeave

\* The variables have their types.
LEMMA Types ==
  SafeInv => /\ client \in [Clients -> Peers] /\ net \in [Conns -> Links] /\ stream \in [Conns -> Streams]
             /\ call \in [Calls -> Outcomes] /\ faults \in Nat /\ expired \in SUBSET Nat /\ blamed \in SUBSET Nat
             /\ TypeInv /\ ControlInv /\ IdleClients
  BY DEF SafeInv, TypeInv

\* handleMessage().
LEMMA SafeClientReceives ==
  ASSUME SafeInv, NEW c \in Clients, ClientReceives(c)
  PROVE  SafeInv'
  <1> DEFINE k == client[c].conn
             m == Head(net[k].s2c)
  <1>0. /\ k # 0 /\ k \in Conns /\ net[k].s2c # <<>> /\ faults' = faults
        /\ \/ m.t = "close" /\ handleClose(c, m.cause)
           \/ m.t = "hello" /\ handleInitialHandshake(c, k)
           \/ m.t = "activated" /\ completeConnection(c, k)
           \/ m.t = "request" /\ admitServerRequest(c, k, m.q)
           \/ m.t = "reply" /\ handleReply(c, k, m.q)
           \/ m.t = "ack" /\ handleRequestAck(c, k, m.q)
    BY SocketType DEF ClientReceives, Writable
  <1>1. /\ net[k].s2c \in Seq(DownFrames) /\ m \in DownFrames
        /\ m.t = "request" => m.q \in ServerCalls
        /\ m.t \in {"reply", "ack"} => m.q \in ClientCalls
        /\ m.q \in Nat
    <2>1. net[k].s2c \in Seq(DownFrames)
      BY <1>0, Types DEF Links
    <2>2. m \in DownFrames
      BY <1>0, <2>1
    <2> HIDE DEF m
    <2>3. \/ m.t \in {"hello", "activated", "close"} /\ m.q = 0
          \/ m.t = "request" /\ m.q \in ServerCalls
          \/ m.t \in {"reply", "ack"} /\ m.q \in ClientCalls
      BY <2>2, FrameFields
    <2>4. 0 \in Nat /\ ServerCalls \subseteq Nat /\ ClientCalls \subseteq Nat
      BY SrpcAssumption
    <2> QED BY <2>1, <2>2, <2>3, <2>4
  <1> HIDE DEF m
  <1>2. CASE m.t = "close" /\ handleClose(c, m.cause)
    <2>1. /\ revokeGeneration(c, m.cause, m.cause = "conflict", net) /\ blamed' = blamed
      BY <1>2 DEF handleClose
    <2>2. Goodbye(net, k) /\ net \in [Conns -> Links] /\ (m.cause = "conflict") \in BOOLEAN
      BY <1>0, GoodbyeCases, Types
    <2> DEFINE b == m.cause = "conflict"
    <2>3. b \in BOOLEAN /\ (b => m.cause = "conflict") /\ revokeGeneration(c, m.cause, b, net)
      BY <2>1
    <2> HIDE DEF b
    <2> QED BY <1>0, <2>1, <2>2, <2>3, SafeLeave, Types
  <1>3. CASE \/ m.t = "hello" /\ handleInitialHandshake(c, k)
             \/ m.t = "activated" /\ completeConnection(c, k)
    <2> DEFINE p == IF m.t = "hello" THEN "activating" ELSE "connected"
    <2>1. /\ p \in Phases /\ p \in {"open", "activating", "connected"}
          /\ p = "connected" => m.t = "activated"
          /\ \/ client' = [client EXCEPT ![c].phase = p]
             \/ p = "connected" /\ client' = [client EXCEPT ![c] = [client[c] EXCEPT !.phase = "connected", !.established = TRUE]]
          /\ net' = PopDown(k) /\ m.t # "close"
          /\ UNCHANGED <<stream, reg, call, expired, blamed>>
      BY <1>3 DEF handleInitialHandshake, completeConnection, Phases
    <2> HIDE DEF p
    <2>2. /\ client' \in [Clients -> Peers] /\ \A d \in Clients \ {c} : client'[d] = client[d]
          /\ client'[c].phase = p /\ client'[c].conn = client[c].conn
      BY <2>1, Types, PhaseEffect, ZenonT(60)
    <2>3. /\ net' \in [Conns -> Links] /\ LinksAlike /\ NoticesAlike(Conns)
          /\ m.t = "activated" => Has(net[k].s2c, "activated")
      BY <1>0, <2>1, Types, PopDownEffect DEF m
    <2>4. p = "connected" => stream[k].stage \in Published
      BY <1>0, <2>1, <2>3 DEF SafeInv, ControlInv, Announced
    <2>5. ClientsAlike(Clients \ {c}) /\ StagesAlike(Conns) /\ TypeInv'
      BY <1>0, <2>1, <2>2, <2>3 DEF ClientsAlike, StagesAlike, SafeInv, TypeInv
    <2>6. ControlInv'
      BY <1>0, <2>1, <2>2, <2>3, <2>4, <2>5, ControlPhase, Types
    <2>7. IdleClients'
      BY <1>0, <2>2 DEF SafeInv, IdleClients
    <2> QED BY <2>5, <2>6, <2>7 DEF SafeInv
  <1>4. CASE m.t = "request" /\ admitServerRequest(c, k, m.q)
    <2>1. CASE Cardinality(client[c].running) >= MaxInFlight
      <3>1. closeGenerationWithError(c, 0)
        BY <1>4, <2>1 DEF admitServerRequest
      <3> QED BY <1>0, <3>1, SafeClose, Types
    <2>2. CASE ~(Cardinality(client[c].running) >= MaxInFlight)
      <3> DEFINE x == client[c].running \cup {m.q}
                 y == IF Acks THEN client[c].unacked \cup {m.q} ELSE client[c].unacked
      <3>1. /\ client' = [client EXCEPT ![c] = [client[c] EXCEPT !.running = x, !.unacked = y]]
            /\ call' = [call EXCEPT ![m.q].runs = @ + 1]
            /\ net' = PopDown(k) /\ UNCHANGED <<stream, reg, expired, blamed>>
        BY <1>4, <2>2 DEF admitServerRequest
      <3>2. x \in SUBSET ServerCalls /\ y \in SUBSET ServerCalls /\ m.q \in Calls
        BY <1>1, <1>4, Types, Numbers DEF Peers
      <3> HIDE DEF x, y
      <3>3. /\ client' \in [Clients -> Peers] /\ ClientsAlike(Clients)
            /\ \A d \in Clients \ {c} : client'[d] = client[d]
        BY <3>1, <3>2, Types, HandlersEffect
      <3>6. IdleClients'
        BY <1>0, <3>3 DEF SafeInv, IdleClients, ClientsAlike
      <3>4. call' \in [Calls -> Outcomes]
        BY <3>1, <3>2, Types, CallField, ZenonT(60)
      <3>5. net' \in [Conns -> Links] /\ LinksAlike /\ NoticesAlike(Conns)
        BY <1>0, <1>4, <3>1, Types, PopDownEffect DEF m
      <3> QED BY <1>0, <3>1, <3>3, <3>4, <3>5, <3>6, Types, Untouched, SafeQuiet
    <2> QED BY <2>1, <2>2
  <1>5. CASE \/ m.t = "reply" /\ handleReply(c, k, m.q)
             \/ m.t = "ack" /\ handleRequestAck(c, k, m.q)
    <2>1. CASE ClientKnows(c, k, m.q)
      <3>1. /\ net' = PopDown(k) /\ UNCHANGED <<client, stream, reg, expired, blamed>>
            /\ call' = call \/ call' = Set(m.q, "result")
        BY <1>5, <2>1, ZenonT(60) DEF handleReply, handleRequestAck
      <3>2. net' \in [Conns -> Links] /\ LinksAlike /\ NoticesAlike(Conns)
        BY <1>0, <1>5, <3>1, Types, PopDownEffect DEF m
      <3>3. call' \in [Calls -> Outcomes]
        <4>1. m.q \in Calls /\ "result" \in Statuses
          BY <1>1, <1>5, Numbers DEF Statuses
        <4>2. Set(m.q, "result") \in [Calls -> Outcomes]
          BY <4>1, Types, CallField
        <4> QED BY <3>1, <4>2, Types
      <3> QED BY <1>0, <3>1, <3>2, <3>3, Types, Untouched, SafeQuiet
    <2>2. CASE ~ClientKnows(c, k, m.q)
      <3>1. closeGenerationWithError(c, m.q)
        BY <1>5, <2>2 DEF handleReply, handleRequestAck
      <3> QED BY <1>0, <1>1, <3>1, SafeClose, Types
    <2> QED BY <2>1, <2>2
  <1> QED BY <1>0, <1>2, <1>3, <1>4, <1>5

\* The steps of one client.
LEMMA SafeClient ==
  ASSUME SafeInv, NEW c \in Clients, ClientNext(c)
  PROVE  SafeInv'
  <1> DEFINE k == client[c].conn
  <1>0. /\ client[c] \in Peers /\ faults + 1 \in Nat
    BY Types
  <1>1. ASSUME NEW b \in BOOLEAN, connect(c, b) PROVE SafeInv'
    <2>1. StartGeneration(c, b) /\ faults' \in Nat
      BY <1>0, <1>1, Types DEF connect, Fault
    <2> QED BY <2>1, SafeStart
  <1>2. CASE queueReconnectFires(c)
    <2>1. StartGeneration(c, client[c].established) /\ faults' \in Nat /\ client[c].established \in BOOLEAN
      BY <1>0, <1>2, Types DEF queueReconnectFires, Peers
    <2> QED BY <2>1, SafeStart
  <1>3. CASE disconnect(c)
    BY <1>3, SafeDisconnect
  <1>4. CASE ConnectTimeout(c)
    <2> DEFINE n == Up(net, k, Close("disconnect"))
    <2>1. k # 0 /\ k \in Conns /\ revokeGeneration(c, "timeout", FALSE, n) /\ blamed' = blamed /\ faults' \in Nat
      BY <1>0, <1>4, SocketType DEF ConnectTimeout, Fault
    <2>2. Goodbye(n, k)
      BY <2>1, GoodbyeCases, Types DEF Causes
    <2>3. n \in [Conns -> Links]
      BY <2>2 DEF Goodbye
    <2> HIDE DEF n
    <2> QED BY <2>1, <2>2, <2>3, SafeLeave, Types
  <1>5. CASE ClientLosesSocket(c)
    <2>1. k # 0 /\ k \in Conns /\ revokeGeneration(c, "disconnect", FALSE, net) /\ UNCHANGED <<faults, blamed>>
      BY <1>5, SocketType DEF ClientLosesSocket
    <2>2. Goodbye(net, k)
      BY <2>1, GoodbyeCases, Types
    <2> QED BY <2>1, <2>2, SafeLeave, Types
  <1>6. CASE PongTimeout(c)
    <2>1. k # 0 /\ k \in Conns /\ revokeGeneration(c, "timeout", FALSE, net) /\ UNCHANGED <<faults, blamed>>
      BY <1>6, SocketType DEF PongTimeout
    <2>2. Goodbye(net, k)
      BY <2>1, GoodbyeCases, Types
    <2> QED BY <2>1, <2>2, SafeLeave, Types
  <1>7. CASE SocketOpens(c)
    <2>1. /\ k # 0 /\ client' = [client EXCEPT ![c].phase = "open"]
          /\ UNCHANGED <<net, stream, reg, call, faults, expired, blamed>> /\ "open" \in Phases
      BY <1>7, SocketType DEF SocketOpens, Phases
    <2>2. /\ client' \in [Clients -> Peers] /\ \A d \in Clients \ {c} : client'[d] = client[d]
          /\ client'[c].phase = "open" /\ client'[c].conn = client[c].conn
      BY <2>1, Types, PhaseEffect
    <2>3. ClientsAlike(Clients \ {c}) /\ LinksAlike /\ NoticesAlike(Conns) /\ StagesAlike(Conns) /\ TypeInv'
      BY <2>1, <2>2 DEF ClientsAlike, LinksAlike, NoticesAlike, StagesAlike, SafeInv, TypeInv
    <2>4. ControlInv'
      BY <2>1, <2>2, <2>3, ControlPhase, Types
    <2>5. IdleClients'
      BY <2>1, <2>2 DEF SafeInv, IdleClients
    <2> QED BY <2>3, <2>4, <2>5 DEF SafeInv
  <1>8. CASE ClientReceives(c)
    BY <1>8, SafeClientReceives
  <1>9. CASE ClientOverflows(c)
    <2>1. k # 0 /\ closeGenerationWithError(c, 0) /\ faults' \in Nat
      BY <1>0, <1>9, SocketType DEF ClientOverflows, Writable, Fault
    <2> QED BY <2>1, SafeClose
  <1>10. ASSUME NEW q \in ServerCalls, handleServerRequestEnds(c, q) \/ acknowledgeServerRequest(c, q)
         PROVE  SafeInv'
    <2> DEFINE x == client[c].running \ {q}
               y == client[c].unacked \ {q}
    <2>1. /\ \/ client' = [client EXCEPT ![c] = [client[c] EXCEPT !.running = x, !.unacked = y]]
             \/ client' = [client EXCEPT ![c].unacked = y]
          /\ net' = Up(net, k, Msg("reply", q)) \/ net' = Up(net, k, Msg("ack", q))
          /\ UNCHANGED <<stream, reg, call, faults, expired, blamed>>
          /\ q \in client[c].running \/ q \in client[c].unacked
      BY <1>10 DEF handleServerRequestEnds, acknowledgeServerRequest
    <2>2. x \in SUBSET ServerCalls /\ y \in SUBSET ServerCalls /\ k # 0 /\ k \in Conns
      BY <1>0, <2>1, SocketType DEF Peers, SafeInv, IdleClients
    <2> HIDE DEF x, y
    <2>3. /\ client' \in [Clients -> Peers] /\ ClientsAlike(Clients)
          /\ \A d \in Clients \ {c} : client'[d] = client[d]
      BY <2>1, <2>2, Types, HandlersEffect, UnackedEffect
    <2>4. net' \in [Conns -> Links] /\ LinksAlike /\ NoticesAlike(Conns)
      BY <2>1, <2>2, Types, UpEffect, FrameType
    <2>5. IdleClients'
      BY <2>2, <2>3 DEF SafeInv, IdleClients, ClientsAlike
    <2> QED BY <2>1, <2>3, <2>4, <2>5, Types, Untouched, SafeQuiet
  <1>11. ASSUME NEW q \in ClientCalls, ClientInvokes(c, q) PROVE SafeInv'
    <2>0. q \in Calls /\ "refused" \in Statuses
      BY Numbers DEF Statuses
    <2>1. CASE call' = Set(q, "refused") /\ UNCHANGED <<client, net, stream, reg, faults, expired, blamed>>
      <3>1. call' \in [Calls -> Outcomes]
        BY <2>0, <2>1, Types, CallField
      <3> QED BY <2>1, <3>1, Types, Untouched, SafeQuiet
    <2>2. CASE /\ Writable(c) /\ call' = [call EXCEPT ![q] = [call[q] EXCEPT !.st = "sent", !.conn = client[c].conn]]
               /\ net' = Up(net, k, Msg("request", q))
               /\ UNCHANGED <<client, stream, reg, faults, expired, blamed>>
      <3>1. k \in Conns
        BY <2>2, SocketType DEF Writable
      <3>2. call' \in [Calls -> Outcomes]
        BY <2>0, <2>2, <3>1, Types, CallField
      <3>3. net' \in [Conns -> Links] /\ LinksAlike /\ NoticesAlike(Conns)
        BY <2>2, <3>1, Types, UpEffect, FrameType
      <3> QED BY <2>2, <3>2, <3>3, Types, Untouched, SafeQuiet
    <2> QED BY <1>11, <2>1, <2>2 DEF ClientInvokes
  <1>12. ASSUME NEW q \in ClientCalls, ClientCallTimesOut(c, q) PROVE SafeInv'
    <2> DEFINE x == client[c].late \cup {q}
    <2>0. q \in Calls /\ "indeterminate" \in Statuses /\ x \in SUBSET ClientCalls
      BY <1>0, Numbers DEF Statuses, Peers
    <2>1. /\ call' = Set(q, "indeterminate") /\ client' = [client EXCEPT ![c].late = x]
          /\ UNCHANGED <<net, stream, reg, faults, expired, blamed>>
      BY <1>12 DEF ClientCallTimesOut
    <2> HIDE DEF x
    <2>2. /\ client' \in [Clients -> Peers] /\ ClientsAlike(Clients)
          /\ \A d \in Clients \ {c} : client'[d] = client[d]
          /\ client'[c].running = client[c].running /\ client'[c].unacked = client[c].unacked
      BY <2>0, <2>1, Types, LateEffect
    <2>3. call' \in [Calls -> Outcomes]
      BY <2>0, <2>1, Types, CallField
    <2>4. IdleClients'
      BY <2>2 DEF SafeInv, IdleClients, ClientsAlike
    <2> QED BY <2>1, <2>2, <2>3, <2>4, Types, Untouched, SafeQuiet
  <1>13. ASSUME NEW q \in ClientCalls, ClientTombstoneExpires(c, q) PROVE SafeInv'
    <2> DEFINE x == client[c].late \ {q}
    <2>0. x \in SUBSET ClientCalls /\ q \in Nat
      BY <1>0, SrpcAssumption DEF Peers
    <2>1. /\ client' = [client EXCEPT ![c].late = x] /\ expired' = expired \cup {q} /\ faults' = faults + 1
          /\ UNCHANGED <<net, stream, reg, call, blamed>>
      BY <1>13 DEF ClientTombstoneExpires, Fault
    <2> HIDE DEF x
    <2>2. /\ client' \in [Clients -> Peers] /\ ClientsAlike(Clients)
          /\ \A d \in Clients \ {c} : client'[d] = client[d]
          /\ client'[c].running = client[c].running /\ client'[c].unacked = client[c].unacked
      BY <2>0, <2>1, Types, LateEffect
    <2>3. IdleClients'
      BY <2>2 DEF SafeInv, IdleClients, ClientsAlike
    <2>4. expired' \in SUBSET Nat
      BY <2>0, <2>1, Types
    <2> QED BY <1>0, <2>1, <2>2, <2>3, <2>4, Types, Untouched, SafeQuiet
  <1> QED BY <1>1, <1>2, <1>3, <1>4, <1>5, <1>6, <1>7, <1>8, <1>9, <1>10, <1>11, <1>12, <1>13 DEF ClientNext

\* The calls after a dispatch.
LEMMA StartedType ==
  ASSUME TypeInv, NEW S
  PROVE  /\ Started(S) \in [Calls -> Outcomes]
         /\ \A q \in Calls : /\ Started(S)[q].st = call[q].st /\ Started(S)[q].conn = call[q].conn
                             /\ Started(S)[q].runs = IF q \in ToSet(S) THEN call[q].runs + 1 ELSE call[q].runs
  <1> SUFFICES ASSUME NEW q \in Calls
               PROVE  /\ Started(S)[q] \in Outcomes
                      /\ Started(S)[q].st = call[q].st /\ Started(S)[q].conn = call[q].conn
                      /\ Started(S)[q].runs = IF q \in ToSet(S) THEN call[q].runs + 1 ELSE call[q].runs
    BY DEF Started
  <1>1. call[q] \in Outcomes /\ call[q].runs + 1 \in Nat
    BY DEF TypeInv, Outcomes
  <1>2. Started(S)[q] = IF q \in ToSet(S) THEN [call[q] EXCEPT !.runs = call[q].runs + 1] ELSE call[q]
    BY DEF Started
  <1>3. CASE q \in ToSet(S)
    BY <1>1, <1>2, <1>3 DEF Outcomes
  <1>4. CASE q \notin ToSet(S)
    BY <1>1, <1>2, <1>4
  <1> QED BY <1>3, <1>4

\* Both ways in which a stream is given up.
LEMMA DispatchedCases ==
  ASSUME TypeInv, NEW k \in Conns
  PROVE  /\ Dispatched(net, call, k)
         /\ \A S \in Seq(ClientCalls) : Dispatched(Receipts(net, k, S), Started(S), k)
  <1>1. Dispatched(net, call, k)
    BY DEF Dispatched
  <1>2. ASSUME NEW S \in Seq(ClientCalls) PROVE Dispatched(Receipts(net, k, S), Started(S), k)
    <2> DEFINE n == Receipts(net, k, S)
    <2>1. net \in [Conns -> Links]
      BY DEF TypeInv
    <2>2. /\ \A i \in Conns : /\ n[i].owner = net[i].owner /\ n[i].health = net[i].health
                              /\ i # k => n[i] = net[i]
          /\ Has(n[k].s2c, "activated") => Has(net[k].s2c, "activated")
      BY <2>1, ReceiptsType
    <2> QED BY <2>2, StartedType DEF Dispatched
  <1> QED BY <1>1, <1>2

\* A stream is given up.
LEMMA SafeCleanup ==
  ASSUME SafeInv, NEW k \in Conns, NEW cause \in Causes, NEW n \in [Conns -> Links],
         NEW r \in [Calls -> Outcomes], Dispatched(n, r, k), cleanupStream(k, cause, n, r),
         Live(k), faults' \in Nat, blamed' \in SUBSET Nat
  PROVE  SafeInv'
  <1>1. /\ stream' \in [Conns -> Streams] /\ net' \in [Conns -> Links] /\ call' \in [Calls -> Outcomes]
        /\ reg' \in [pending : 0..MaxConns, active : 0..MaxConns]
        /\ UNCHANGED <<client, expired>>
    BY Types, CleanupEffect
  <1>2. stream'[k].stage = "revoked" /\ \A i \in Conns \ {k} : stream'[i] = stream[i]
    BY Types, CleanupEffect
  <1>3. /\ reg'.pending = IF reg.pending = k THEN 0 ELSE reg.pending
        /\ reg'.active = IF reg.active = k THEN 0 ELSE reg.active
    BY Types, CleanupEffect
  <1>4. \A i \in Conns : /\ net'[i].owner = net[i].owner /\ net'[i].health = net[i].health
                         /\ i # k => net'[i] = net[i]
    BY Types, CleanupEffect
  <1>5. /\ net[k].health = "ok" /\ OnSocket(Owner(k), k) => Has(net'[k].s2c, "close")
        /\ Has(net'[k].s2c, "activated") => Has(net[k].s2c, "activated")
    BY Types, CleanupEffect
  <1>6. /\ ClientsAlike(Clients) /\ LinksAlike /\ NoticesAlike(Conns \ {k}) /\ StagesAlike(Conns \ {k})
        /\ IdleClients'
    BY <1>1, <1>2, <1>4 DEF ClientsAlike, LinksAlike, NoticesAlike, StagesAlike, SafeInv, IdleClients
  <1>7. TypeInv'
    BY <1>1, Types DEF TypeInv
  <1>8. stream[k].stage \in Registered \cup {"auth"}
    BY DEF Live
  <1>9. ControlInv'
    BY <1>2, <1>3, <1>5, <1>6, <1>8, Types, ControlRevoke
  <1> QED BY <1>6, <1>7, <1>9 DEF SafeInv

\* closeStreamWithError().
LEMMA SafeStreamError ==
  ASSUME SafeInv, NEW k \in Conns, Live(k), NEW q \in Nat, closeStreamWithError(k, q), faults' \in Nat
  PROVE  SafeInv'
  <1>1. cleanupStream(k, "badArg", net, call) /\ blamed' \in SUBSET Nat /\ "badArg" \in Causes
    BY Types DEF closeStreamWithError, Causes
  <1>2. Dispatched(net, call, k)
    BY Types, DispatchedCases
  <1> QED BY <1>1, <1>2, Types, SafeCleanup

\* attachConnection() and handleStreamEstablished().
LEMMA SafeEstablish ==
  ASSUME SafeInv, NEW k \in Conns, handleStreamEstablished(k)
  PROVE  SafeInv'
  <1> DEFINE old == Current
             dropped == IF old = 0 THEN {} ELSE Waiting(old, ServerCalls)
  <1>0. /\ stream[k].stage = "auth" /\ UNCHANGED <<client, faults, expired, blamed>>
        /\ stream \in [Conns -> Streams] /\ stream[k] \in Streams
        /\ reg \in [pending : 0..MaxConns, active : 0..MaxConns]
    BY Types DEF handleStreamEstablished, TypeInv
  <1>1. old \in 0..MaxConns /\ (old # 0 => old \in Conns)
    BY <1>0, Numbers DEF Current
  <1>2. ClientsAlike(Clients) /\ IdleClients'
    BY <1>0, Types, Untouched
  <1>3. CASE old # 0 /\ ~net[k].supersede
    <2> DEFINE u == [stream[k] EXCEPT !.stage = "revoked"]
    <2>1. /\ stream' = [stream EXCEPT ![k] = u] /\ net' = Down(net, k, Close("conflict"))
          /\ UNCHANGED <<reg, call>>
      BY <1>3 DEF handleStreamEstablished
    <2>2. u \in Streams /\ u.stage = "revoked"
      BY <1>0, StreamField, ZenonT(60) DEF Stages
    <2> HIDE DEF u
    <2>3. stream' \in [Conns -> Streams] /\ stream'[k] = u /\ \A i \in Conns \ {k} : stream'[i] = stream[i]
      BY <2>1, <2>2, Types, StreamStep
    <2> DEFINE m == Close("conflict")
    <2>4. m \in DownFrames /\ m.q = 0 /\ m.t = "close"
      BY FrameType DEF Causes
    <2>5. net' = Down(net, k, m) /\ net \in [Conns -> Links]
      BY <2>1, Types
    <2> HIDE DEF m
    <2>6. /\ net' \in [Conns -> Links] /\ LinksAlike /\ NoticesAlike(Conns)
      BY <2>4, <2>5, Types, DownEffect
    <2>7. net[k].health = "ok" /\ OnSocket(Owner(k), k) => Has(net'[k].s2c, "close")
      BY <2>4, <2>5, DownNotice
    <2>8. reg.pending # k /\ reg.active # k
      BY <1>0 DEF SafeInv, ControlInv, EveryLiveStreamIsCurrent
    <2>9. StagesAlike(Conns \ {k}) /\ NoticesAlike(Conns \ {k})
          /\ (Has(net'[k].s2c, "activated") => Has(net[k].s2c, "activated"))
      BY <2>3, <2>6 DEF StagesAlike, NoticesAlike
    <2>10. ControlInv'
      BY <1>0, <1>2, <2>1, <2>2, <2>3, <2>6, <2>7, <2>8, <2>9, Types, ControlRevoke
    <2>11. TypeInv'
      BY <1>0, <2>1, <2>3, <2>6, Types DEF TypeInv
    <2> QED BY <1>2, <2>10, <2>11 DEF SafeInv
  <1>4. CASE ~(old # 0 /\ ~net[k].supersede)
    <2>1. /\ stream' = [i \in Conns |-> IF i = k THEN [stream[k] EXCEPT !.stage = "check"]
                                        ELSE IF i = old THEN Revoked(old) ELSE stream[i]]
          /\ net' = IF old = 0 THEN net ELSE [Down(net, old, Close("supersede")) EXCEPT ![old].c2s = <<>>]
          /\ call' = Abandon(dropped)
          /\ reg' = [pending |-> k, active |-> IF reg.active = old THEN 0 ELSE reg.active]
      BY <1>4 DEF handleStreamEstablished
    <2> DEFINE u == [stream[k] EXCEPT !.stage = "check"]
    <2>2. u \in Streams /\ u.stage = "check"
      BY <1>0, StreamField, ZenonT(60) DEF Stages, Registered
    <2>3. old # 0 => Revoked(old) \in Streams /\ Revoked(old).stage = "revoked"
      <3>1. "revoked" \in Stages /\ <<>> \in Seq(ClientCalls) /\ (old # 0 => stream[old] \in Streams)
        BY <1>0, <1>1 DEF Stages
      <3> HIDE DEF old
      <3> QED BY <3>1 DEF Streams, Revoked
    <2>4. old # k
      BY <1>0, Numbers DEF SafeInv, ControlInv, EveryLiveStreamIsCurrent, Current
    <2> HIDE DEF u
    <2>5. /\ stream' \in [Conns -> Streams] /\ stream'[k] = u
          /\ \A i \in Conns \ {k, old} : stream'[i] = stream[i]
          /\ old # 0 => stream'[old] = Revoked(old)
      <3>1. stream' = [i \in Conns |-> IF i = k THEN u ELSE IF i = old THEN Revoked(old) ELSE stream[i]]
        BY <2>1 DEF u
      <3> HIDE DEF old
      <3>2. ASSUME NEW i \in Conns
            PROVE  (IF i = k THEN u ELSE IF i = old THEN Revoked(old) ELSE stream[i]) \in Streams
        BY <1>0, <1>1, <2>2, <2>3, Numbers
      <3> QED BY <1>1, <2>4, <3>1, <3>2
    <2>6. /\ net' \in [Conns -> Links] /\ LinksAlike /\ NoticesAlike(Conns \ {old})
          /\ old # 0 /\ net[old].health = "ok" /\ OnSocket(Owner(old), old) => Has(net'[old].s2c, "close")
          /\ old # 0 /\ Has(net'[old].s2c, "activated") => Has(net[old].s2c, "activated")
      <3>1. CASE old = 0
        <4>1. net' = net
          BY <2>1, <3>1
        <4>2. LinksAlike /\ NoticesAlike(Conns \ {old})
          BY <4>1 DEF LinksAlike, NoticesAlike
        <4> QED BY <3>1, <4>1, <4>2, Types
      <3>2. CASE old # 0
        <4> DEFINE m == Close("supersede")
                   d == Down(net, old, m)
        <4>1. m \in DownFrames /\ m.q = 0 /\ m.t = "close"
          BY FrameType DEF Causes
        <4>2. net' = [d EXCEPT ![old].c2s = <<>>] /\ old \in Conns /\ net \in [Conns -> Links]
          BY <1>1, <2>1, <3>2, Types
        <4> HIDE DEF m, old
        <4>3. /\ d \in [Conns -> Links]
              /\ \A i \in Conns : /\ d[i].owner = net[i].owner /\ d[i].health = net[i].health
                                  /\ i # old => d[i] = net[i]
              /\ Has(d[old].s2c, "activated") => Has(net[old].s2c, "activated") \/ m.t = "activated"
              /\ net[old].health = "ok" /\ OnSocket(Owner(old), old) => Has(d[old].s2c, m.t)
          BY <4>1, <4>2, DownNotice
        <4> HIDE DEF d
        <4>4. /\ [d EXCEPT ![old].c2s = <<>>] \in [Conns -> Links]
              /\ \A i \in Conns : /\ i # old => [d EXCEPT ![old].c2s = <<>>][i] = d[i]
                                  /\ [d EXCEPT ![old].c2s = <<>>][i].owner = d[i].owner
                                  /\ [d EXCEPT ![old].c2s = <<>>][i].health = d[i].health
                                  /\ [d EXCEPT ![old].c2s = <<>>][i].s2c = d[i].s2c
          BY <4>2, <4>3, ClearType, ZenonT(60)
        <4>5. /\ net' \in [Conns -> Links] /\ net'[old].s2c = d[old].s2c
              /\ \A i \in Conns : /\ net'[i].owner = d[i].owner /\ net'[i].health = d[i].health
                                  /\ i # old => net'[i] = d[i]
          BY Zenon, <4>2, <4>4
        <4>6. LinksAlike /\ NoticesAlike(Conns \ {old})
          BY <4>3, <4>5 DEF LinksAlike, NoticesAlike
        <4> QED BY <4>1, <4>3, <4>5, <4>6
      <3> QED BY <3>1, <3>2
    <2>7. /\ reg' \in [pending : 0..MaxConns, active : 0..MaxConns]
          /\ reg'.pending = k /\ reg'.active = IF reg.active = old THEN 0 ELSE reg.active
      BY <1>0, <2>1, Numbers
    <2>8. call' \in [Calls -> Outcomes]
      BY <2>1, Types, AbandonType
    <2>9. TypeInv'
      BY <1>0, <2>5, <2>6, <2>7, <2>8, Types DEF TypeInv
    <2>10. StagesAlike(Conns \ {k, old}) /\ stream'[k].stage = "check" /\ (old # 0 => stream'[old].stage = "revoked")
      BY <2>2, <2>3, <2>5 DEF StagesAlike
    <2>11. ControlInv'
      BY <1>0, <1>2, <2>6, <2>7, <2>10, Types, ControlEstablish
    <2> QED BY <1>2, <2>9, <2>11 DEF SafeInv
  <1> QED BY <1>3, <1>4

\* A step of the server that leaves the clients alone and changes one stream.
LEMMA SafeServerQuiet ==
  ASSUME SafeInv, client' = client, net' \in [Conns -> Links], LinksAlike, NoticesAlike(Conns),
         NEW k \in Conns, NEW u \in Streams, u.stage = stream[k].stage, stream' = [stream EXCEPT ![k] = u],
         reg' = reg, call' \in [Calls -> Outcomes], faults' \in Nat, expired' \in SUBSET Nat, blamed' = blamed
  PROVE  SafeInv'
  <1>1. stream' \in [Conns -> Streams] /\ stream'[k] = u /\ \A i \in Conns \ {k} : stream'[i] = stream[i]
    BY Types, StreamStep
  <1>2. StagesAlike(Conns)
    BY <1>1 DEF StagesAlike
  <1> QED BY <1>1, <1>2, Types, Untouched, SafeQuiet

\* The receipts of a dispatch change no notice.
LEMMA ReceiptsEffect ==
  ASSUME NEW n \in [Conns -> Links], NEW k \in Conns, NEW S \in Seq(ClientCalls),
         \A i \in Conns : /\ n[i].owner = net[i].owner /\ n[i].health = net[i].health
                          /\ n[i].s2c = net[i].s2c,
         net' = Receipts(n, k, S)
  PROVE  net' \in [Conns -> Links] /\ LinksAlike /\ NoticesAlike(Conns)
  <1> DEFINE r == Receipts(n, k, S)
  <1>1. /\ r \in [Conns -> Links]
        /\ \A i \in Conns : /\ r[i].owner = n[i].owner /\ r[i].health = n[i].health
                            /\ i # k => r[i] = n[i]
    BY ReceiptsType
  <1>3. Has(n[k].s2c, "close") => Has(r[k].s2c, "close")
    BY ReceiptsType
  <1>4. Has(r[k].s2c, "activated") => Has(n[k].s2c, "activated")
    BY ReceiptsType
  <1>2. net' = r
    OBVIOUS
  <1> HIDE DEF r
  <1> QED BY <1>1, <1>2, <1>3, <1>4 DEF LinksAlike, NoticesAlike

\* handleWsMessage() and handleStreamDataReceived().
LEMMA SafeServerReceives ==
  ASSUME SafeInv, NEW k \in Conns, ServerReceives(k)
  PROVE  SafeInv'
  <1> DEFINE m == Head(net[k].c2s)
  <1>0. /\ Live(k) /\ net[k].c2s # <<>> /\ faults' = faults /\ stream[k] \in Streams
        /\ \/ m.t = "close" /\ cleanupStream(k, m.cause, net, call) /\ UNCHANGED blamed
           \/ m.t = "request" /\ stream[k].stage # "open" /\ queueClientRequest(k, m.q)
           \/ m.t = "request" /\ stream[k].stage = "open" /\ dispatchClientRequest(k, m.q)
           \/ m.t = "reply" /\ receiveReply(k, m.q)
           \/ m.t = "ack" /\ receiveRequestAck(k, m.q)
    BY Types DEF ServerReceives
  <1>1. /\ m \in UpFrames /\ m.cause \in Causes
        /\ m.t = "request" => m.q \in ClientCalls
        /\ m.t \in {"reply", "ack"} => m.q \in ServerCalls
        /\ m.q \in Nat
    <2>1. m \in UpFrames
      BY <1>0, Types, PopUpEffect
    <2> HIDE DEF m
    <2>2. /\ \/ m.t \in {"hello", "activated", "close"} /\ m.q = 0
             \/ m.t = "request" /\ m.q \in ClientCalls
             \/ m.t \in {"reply", "ack"} /\ m.q \in ServerCalls
          /\ m.cause \in Causes
      BY <2>1, FrameFields
    <2>3. 0 \in Nat /\ ServerCalls \subseteq Nat /\ ClientCalls \subseteq Nat
      BY SrpcAssumption
    <2> QED BY <2>1, <2>2, <2>3
  <1> HIDE DEF m
  <1>2. /\ PopUp(k) \in [Conns -> Links]
        /\ \A i \in Conns : /\ PopUp(k)[i].owner = net[i].owner /\ PopUp(k)[i].health = net[i].health
                            /\ PopUp(k)[i].s2c = net[i].s2c
    BY <1>0, Types, PopUpEffect
  <1>3. net' = PopUp(k) => net' \in [Conns -> Links] /\ LinksAlike /\ NoticesAlike(Conns)
    BY <1>2 DEF LinksAlike, NoticesAlike
  <1>4. CASE m.t = "close" /\ cleanupStream(k, m.cause, net, call) /\ UNCHANGED blamed
    <2>1. Dispatched(net, call, k)
      BY Types, DispatchedCases
    <2> QED BY <1>0, <1>1, <1>4, <2>1, Types, SafeCleanup
  <1>5. CASE m.t = "request" /\ stream[k].stage # "open" /\ queueClientRequest(k, m.q)
    <2>1. CASE stream[k].stage # "check" /\ Len(stream[k].queue) >= MaxQueued
      <3>1. closeStreamWithError(k, 0)
        BY <1>5, <2>1 DEF queueClientRequest
      <3> QED BY <1>0, <3>1, Types, SafeStreamError
    <2>2. CASE ~(stream[k].stage # "check" /\ Len(stream[k].queue) >= MaxQueued)
      <3> DEFINE x == Append(stream[k].queue, m.q)
                 u == [stream[k] EXCEPT !.queue = x]
      <3>1. /\ stream' = stream \/ stream' = [stream EXCEPT ![k] = u]
            /\ net' = PopUp(k) /\ UNCHANGED <<client, reg, call, expired, blamed>>
        BY <1>5, <2>2 DEF queueClientRequest
      <3>2. x \in Seq(ClientCalls)
        BY <1>0, <1>1, <1>5 DEF Streams
      <3> HIDE DEF x
      <3>3. u \in Streams /\ u.stage = stream[k].stage
        BY <1>0, <3>2, StreamField
      <3> HIDE DEF u
      <3>4. CASE stream' = stream
        BY <1>0, <1>3, <3>1, <3>4, Types, Untouched, SafeQuiet
      <3>5. CASE stream' = [stream EXCEPT ![k] = u]
        BY <1>0, <1>3, <3>1, <3>3, <3>5, Types, SafeServerQuiet
      <3> QED BY <3>1, <3>4, <3>5
    <2> QED BY <2>1, <2>2
  <1>6. CASE m.t = "request" /\ stream[k].stage = "open" /\ dispatchClientRequest(k, m.q)
    <2>1. CASE Cardinality(stream[k].running) >= MaxInFlight
      <3>1. closeStreamWithError(k, 0)
        BY <1>6, <2>1 DEF dispatchClientRequest
      <3> QED BY <1>0, <3>1, Types, SafeStreamError
    <2>2. CASE ~(Cardinality(stream[k].running) >= MaxInFlight)
      <3> DEFINE x == stream[k].running \cup {m.q}
                 u == [stream[k] EXCEPT !.running = x]
      <3>1. /\ stream' = [stream EXCEPT ![k] = u] /\ net' = Receipts(PopUp(k), k, <<m.q>>)
            /\ call' = Started(<<m.q>>) /\ UNCHANGED <<client, reg, expired, blamed>>
        BY <1>6, <2>2 DEF dispatchClientRequest
      <3>2. x \in SUBSET ClientCalls /\ <<m.q>> \in Seq(ClientCalls)
        BY <1>0, <1>1, <1>6 DEF Streams
      <3> HIDE DEF x
      <3>3. u \in Streams /\ u.stage = stream[k].stage
        BY <1>0, <3>2, StreamField
      <3> HIDE DEF u
      <3>4. net' \in [Conns -> Links] /\ LinksAlike /\ NoticesAlike(Conns)
        BY <1>2, <3>1, <3>2, ReceiptsEffect
      <3>5. call' \in [Calls -> Outcomes]
        BY <3>1, Types, StartedType
      <3> QED BY <1>0, <3>1, <3>3, <3>4, <3>5, Types, SafeServerQuiet
    <2> QED BY <2>1, <2>2
  <1>7. CASE m.t = "reply" /\ receiveReply(k, m.q)
    <2>1. CASE ServerKnows(k, m.q)
      <3>1. /\ call' = call \/ call' = Set(m.q, "result")
            /\ net' = PopUp(k) /\ UNCHANGED <<client, stream, reg, expired, blamed>>
        BY <1>7, <2>1 DEF receiveReply
      <3>2. m.q \in Calls /\ "result" \in Statuses
        BY <1>1, <1>7, Numbers DEF Statuses
      <3>3. Set(m.q, "result") \in [Calls -> Outcomes]
        BY <3>2, Types, CallField
      <3> QED BY <1>0, <1>3, <3>1, <3>3, Types, Untouched, SafeQuiet
    <2>2. CASE ~ServerKnows(k, m.q)
      <3>1. closeStreamWithError(k, m.q)
        BY <1>7, <2>2 DEF receiveReply
      <3> QED BY <1>0, <1>1, <3>1, Types, SafeStreamError
    <2> QED BY <2>1, <2>2
  <1>8. CASE m.t = "ack" /\ receiveRequestAck(k, m.q)
    <2>1. CASE ServerKnows(k, m.q)
      <3> DEFINE x == stream[k].acked \cup {m.q}
                 u == [stream[k] EXCEPT !.acked = x]
      <3>1. /\ stream' = [stream EXCEPT ![k] = u] /\ net' = PopUp(k)
            /\ UNCHANGED <<client, reg, call, expired, blamed>>
        BY <1>8, <2>1 DEF receiveRequestAck
      <3>2. x \in SUBSET ServerCalls
        BY <1>0, <1>1, <1>8 DEF Streams
      <3> HIDE DEF x
      <3>3. u \in Streams /\ u.stage = stream[k].stage
        BY <1>0, <3>2, StreamField
      <3> HIDE DEF u
      <3> QED BY <1>0, <1>3, <3>1, <3>3, Types, SafeServerQuiet
    <2>2. CASE ~ServerKnows(k, m.q)
      <3>1. closeStreamWithError(k, m.q)
        BY <1>8, <2>2 DEF receiveRequestAck
      <3> QED BY <1>0, <1>1, <3>1, Types, SafeStreamError
    <2> QED BY <2>1, <2>2
  <1> QED BY <1>0, <1>4, <1>5, <1>6, <1>7, <1>8

\* onStreamActivated() is done: openClientRequests().
LEMMA SafeOpen ==
  ASSUME SafeInv, NEW k \in Conns, openClientRequests(k)
  PROVE  SafeInv'
  <1> DEFINE S == SubSeq(stream[k].queue, 1, IF Len(stream[k].queue) <= MaxInFlight THEN Len(stream[k].queue) ELSE MaxInFlight)
  <1>0. /\ stream[k].stage = "activated" /\ Live(k) /\ faults' = faults /\ stream[k] \in Streams
        /\ stream[k].queue \in Seq(ClientCalls)
        /\ IF S = stream[k].queue
           THEN /\ stream' = [stream EXCEPT ![k] = [stream[k] EXCEPT !.stage = "open", !.queue = <<>>, !.running = ToSet(S)]]
                /\ call' = Started(S) /\ net' = Receipts(net, k, S)
                /\ UNCHANGED <<client, reg, expired, blamed>>
           ELSE /\ cleanupStream(k, "badArg", Receipts(net, k, S), Started(S))
                /\ blamed' = blamed \cup {0}
    BY Types DEF openClientRequests, Dispatchable, Streams
  <1>1. S \in Seq(ClientCalls)
    BY <1>0, SrpcAssumption, SubSeqProperties
  <1>2. ToSet(S) \in SUBSET ClientCalls
    <2> HIDE DEF S
    <2> QED BY <1>1 DEF ToSet
  <1> HIDE DEF S
  <1>3. Started(S) \in [Calls -> Outcomes] /\ Receipts(net, k, S) \in [Conns -> Links]
    BY <1>1, Types, StartedType, ReceiptsType
  <1>4. CASE S = stream[k].queue
    <2> DEFINE x == ToSet(S)
               u == [stream[k] EXCEPT !.stage = "open", !.queue = <<>>, !.running = x]
    <2>1. /\ stream' = [stream EXCEPT ![k] = u] /\ call' = Started(S) /\ net' = Receipts(net, k, S)
          /\ UNCHANGED <<client, reg, expired, blamed>>
      BY <1>0, <1>4
    <2>2. "open" \in Stages /\ <<>> \in Seq(ClientCalls) /\ x \in SUBSET ClientCalls
      BY <1>2 DEF Stages, Registered
    <2> HIDE DEF x
    <2>3. u \in Streams /\ u.stage = "open"
      BY <1>0, <2>2 DEF Streams
    <2> HIDE DEF u
    <2>4. stream' \in [Conns -> Streams] /\ stream'[k] = u /\ \A i \in Conns \ {k} : stream'[i] = stream[i]
      BY <2>1, <2>3, Types, StreamStep
    <2>5. net' \in [Conns -> Links] /\ LinksAlike /\ NoticesAlike(Conns)
      BY <1>1, <2>1, Types, ReceiptsEffect
    <2>6. /\ TypeInv' /\ StagesAlike(Conns \ {k}) /\ ClientsAlike(Clients) /\ IdleClients'
      BY <1>0, <1>3, <2>1, <2>4, <2>5, Types DEF TypeInv, StagesAlike, ClientsAlike, IdleClients
    <2>7. ControlInv'
      BY <1>0, <2>1, <2>3, <2>4, <2>5, <2>6, Types, ControlStage
    <2> QED BY <2>6, <2>7 DEF SafeInv
  <1>5. CASE S # stream[k].queue
    <2>1. cleanupStream(k, "badArg", Receipts(net, k, S), Started(S)) /\ blamed' \in SUBSET Nat /\ "badArg" \in Causes
      BY <1>0, <1>5, Types DEF Causes
    <2>2. Dispatched(Receipts(net, k, S), Started(S), k)
      BY <1>1, Types, DispatchedCases
    <2> QED BY <1>0, <1>3, <2>1, <2>2, Types, SafeCleanup
  <1> QED BY <1>4, <1>5

\* verifyClient() refuses the upgrade.
LEMMA SafeRefuse ==
  ASSUME SafeInv, NEW k \in Conns, verifyClientRefuses(k)
  PROVE  SafeInv'
  <1> DEFINE u == [stream[k] EXCEPT !.stage = "refused"]
  <1>1. /\ stream[k].stage = "auth" /\ stream' = [stream EXCEPT ![k] = u] /\ faults' \in Nat
        /\ stream[k] \in Streams /\ UNCHANGED <<client, net, reg, call, expired, blamed>>
    BY Types DEF verifyClientRefuses, Fault
  <1>2. u \in Streams /\ u.stage = "refused"
    <2>1. stream[k] \in Streams /\ "refused" \in Stages
      BY <1>1 DEF Stages
    <2> QED BY <2>1, StreamField
  <1> HIDE DEF u
  <1>3. stream' \in [Conns -> Streams] /\ stream'[k] = u /\ \A i \in Conns \ {k} : stream'[i] = stream[i]
    BY <1>1, <1>2, Types, StreamStep
  <1>4. StagesAlike(Conns \ {k})
    BY <1>3 DEF StagesAlike
  <1>5. ControlInv'
    BY <1>1, <1>2, <1>3, <1>4, Types, Untouched, ControlStage
  <1>6. TypeInv'
    BY <1>1, <1>3, Types DEF TypeInv
  <1> QED BY <1>1, <1>5, <1>6, Types, Untouched DEF SafeInv

\* The listener is installed and HELLO is sent.
LEMMA SafeHello ==
  ASSUME SafeInv, NEW k \in Conns, SendHello(k)
  PROVE  SafeInv'
  <1> DEFINE u == [stream[k] EXCEPT !.stage = "handlers"]
             m == Msg("hello", 0)
  <1>1. /\ stream[k].stage = "check" /\ stream' = [stream EXCEPT ![k] = u] /\ net' = Down(net, k, m)
        /\ stream[k] \in Streams /\ UNCHANGED <<client, reg, call, faults, expired, blamed>>
    BY Types DEF SendHello
  <1>2. u \in Streams /\ u.stage = "handlers"
    <2>1. stream[k] \in Streams /\ "handlers" \in Stages
      BY <1>1 DEF Stages, Registered
    <2> QED BY <2>1, StreamField
  <1>3. m \in DownFrames /\ m.t = "hello"
    BY FrameType
  <1> HIDE DEF u, m
  <1>4. stream' \in [Conns -> Streams] /\ stream'[k] = u /\ \A i \in Conns \ {k} : stream'[i] = stream[i]
    BY <1>1, <1>2, Types, StreamStep
  <1>5. net' \in [Conns -> Links] /\ LinksAlike /\ NoticesAlike(Conns)
    BY <1>1, <1>3, Types, DownEffect
  <1>6. StagesAlike(Conns \ {k})
    BY <1>4 DEF StagesAlike
  <1>7. ControlInv'
    BY <1>1, <1>2, <1>4, <1>5, <1>6, Types, Untouched, ControlStage
  <1>8. TypeInv'
    BY <1>1, <1>4, <1>5, Types DEF TypeInv
  <1> QED BY <1>1, <1>7, <1>8, Types, Untouched DEF SafeInv

\* activateStream() and ACTIVATED.
LEMMA SafeActivate ==
  ASSUME SafeInv, NEW k \in Conns, activateStream(k)
  PROVE  SafeInv'
  <1> DEFINE u == [stream[k] EXCEPT !.stage = "activated"]
             m == Msg("activated", 0)
             d == Down(net, k, m)
  <1>1. /\ stream[k].stage = "handlers" /\ stream' = [stream EXCEPT ![k] = u] /\ net' = d
        /\ reg' = [pending |-> 0, active |-> k]
        /\ stream[k] \in Streams /\ UNCHANGED <<client, call, faults, expired, blamed>>
    BY Types DEF activateStream
  <1>2. u \in Streams /\ u.stage = "activated"
    <2>1. stream[k] \in Streams /\ "activated" \in Stages
      BY <1>1 DEF Stages, Registered
    <2> QED BY <2>1, StreamField
  <1>3. m \in DownFrames /\ m.q = 0
    BY FrameType
  <1> HIDE DEF u, m
  <1>4. stream' \in [Conns -> Streams] /\ stream'[k] = u /\ \A i \in Conns \ {k} : stream'[i] = stream[i]
    BY <1>1, <1>2, Types, StreamStep
  <1>5. /\ d \in [Conns -> Links]
        /\ \A i \in Conns : /\ d[i].owner = net[i].owner /\ d[i].health = net[i].health
                            /\ i # k => d[i] = net[i]
        /\ Has(net[k].s2c, "close") => Has(d[k].s2c, "close")
    BY <1>3, Types, DownNotice
  <1> HIDE DEF d
  <1>6. LinksAlike /\ NoticesAlike(Conns \ {k}) /\ StagesAlike(Conns \ {k})
    BY <1>1, <1>4, <1>5 DEF LinksAlike, NoticesAlike, StagesAlike
  <1>7. /\ reg' \in [pending : 0..MaxConns, active : 0..MaxConns] /\ reg'.pending = 0 /\ reg'.active = k
    BY <1>1, Numbers
  <1>8. Has(net[k].s2c, "close") => Has(net'[k].s2c, "close")
    BY <1>1, <1>5
  <1>9. ControlInv'
    BY <1>1, <1>2, <1>4, <1>6, <1>7, <1>8, Types, Untouched, ControlActivate
  <1>10. TypeInv'
    BY <1>1, <1>4, <1>5, <1>7, Types DEF TypeInv
  <1> QED BY <1>1, <1>9, <1>10, Types, Untouched DEF SafeInv

\* The network loses a connection.
LEMMA SafeBreak ==
  ASSUME SafeInv, NEW k \in Conns, NetworkBreaks(k)
  PROVE  SafeInv'
  <1> DEFINE r == [net[k] EXCEPT !.health = "broken", !.c2s = <<>>, !.s2c = <<>>]
  <1>1. /\ net[k].health = "ok" /\ net' = [net EXCEPT ![k] = r] /\ faults' \in Nat /\ net[k] \in Links
        /\ UNCHANGED <<client, stream, reg, call, expired, blamed>>
    BY Types DEF NetworkBreaks, Fault
  <1>2. r \in Links /\ r.owner = net[k].owner /\ r.health = "broken" /\ r.s2c = <<>>
    <2>1. <<>> \in Seq(UpFrames) /\ <<>> \in Seq(DownFrames)
      OBVIOUS
    <2> QED BY <1>1, <2>1 DEF Links
  <1> HIDE DEF r
  <1>3. net' \in [Conns -> Links] /\ net'[k] = r /\ \A i \in Conns \ {k} : net'[i] = net[i]
    BY <1>1, <1>2, Types
  <1>4. ControlInv'
    BY <1>1, <1>2, <1>3, Types, ControlBreak
  <1>5. TypeInv'
    BY <1>1, <1>3, Types DEF TypeInv
  <1> QED BY <1>1, <1>4, <1>5, Types, Untouched DEF SafeInv

\* The steps of the server but the timer of its own requests.
LEMMA SafeServer ==
  ASSUME SafeInv, NEW k \in Conns, ServerNext(k)
  PROVE  SafeInv'
  <1>0. stream[k] \in Streams
    BY Types
  <1>1. CASE ActivationFails(k) \/ closeStreamGracefully(k) \/ ServerLosesSocket(k)
    <2>1. /\ cleanupStream(k, "disconnect", net, call) /\ Live(k) /\ faults' \in Nat /\ blamed' = blamed
          /\ "disconnect" \in Causes
      BY <1>1, Types DEF ActivationFails, closeStreamGracefully, ServerLosesSocket, Live, Registered, Fault, Causes
    <2>2. Dispatched(net, call, k)
      BY Types, DispatchedCases
    <2> QED BY <2>1, <2>2, Types, SafeCleanup
  <1>2. ASSUME NEW q \in ClientCalls, handleClientRequestEnds(k, q) PROVE SafeInv'
    <2> DEFINE x == stream[k].running \ {q}
               u == [stream[k] EXCEPT !.running = x]
               m == Msg("reply", q)
    <2>1. /\ stream' = [stream EXCEPT ![k] = u] /\ net' = Down(net, k, m)
          /\ UNCHANGED <<client, reg, call, faults, expired, blamed>>
      BY <1>2 DEF handleClientRequestEnds
    <2>2. x \in SUBSET ClientCalls /\ m \in DownFrames /\ m.t = "reply"
      BY <1>0, FrameType DEF Streams
    <2> HIDE DEF x, m
    <2>3. u \in Streams /\ u.stage = stream[k].stage
      BY <1>0, <2>2, StreamField
    <2> HIDE DEF u
    <2>4. net' \in [Conns -> Links] /\ LinksAlike /\ NoticesAlike(Conns)
      BY <2>1, <2>2, Types, DownEffect
    <2> QED BY <2>1, <2>3, <2>4, Types, SafeServerQuiet
  <1>3. ASSUME NEW q \in ServerCalls, ServerInvokes(k, q) PROVE SafeInv'
    <2>0. q \in Calls /\ "refused" \in Statuses /\ UNCHANGED <<client, stream, reg, faults, expired, blamed>>
      BY <1>3, Numbers DEF ServerInvokes, Statuses
    <2>1. CASE call' = Set(q, "refused") /\ UNCHANGED net
      <3>1. Set(q, "refused") \in [Calls -> Outcomes]
        BY <2>0, Types, CallField
      <3> QED BY <2>0, <2>1, <3>1, Types, Untouched, SafeQuiet
    <2>2. CASE /\ call' = [call EXCEPT ![q] = [call[q] EXCEPT !.st = "sent", !.conn = k]]
               /\ net' = Down(net, k, Msg("request", q))
      <3> DEFINE m == Msg("request", q)
                 f == [call EXCEPT ![q] = [call[q] EXCEPT !.st = "sent", !.conn = k]]
      <3>1. f \in [Calls -> Outcomes]
        BY <2>0, Types, CallField
      <3>2. m \in DownFrames /\ m.t = "request"
        BY FrameType
      <3>3. call' = f /\ net' = Down(net, k, m)
        BY <2>2
      <3> HIDE DEF m, f
      <3>4. net' \in [Conns -> Links] /\ LinksAlike /\ NoticesAlike(Conns)
        BY <3>2, <3>3, Types, DownEffect
      <3> QED BY <2>0, <3>1, <3>3, <3>4, Types, Untouched, SafeQuiet
    <2> QED BY <1>3, <2>1, <2>2 DEF ServerInvokes
  <1>4. ASSUME NEW q \in ServerCalls, ServerTombstoneExpires(k, q) PROVE SafeInv'
    <2> DEFINE x == stream[k].late \ {q}
               u == [stream[k] EXCEPT !.late = x]
    <2>1. /\ stream' = [stream EXCEPT ![k] = u] /\ faults' \in Nat /\ expired' \in SUBSET Nat
          /\ UNCHANGED <<client, net, reg, call, blamed>>
      BY <1>4, Types, Numbers DEF ServerTombstoneExpires, Fault
    <2>2. x \in SUBSET ServerCalls
      BY <1>0 DEF Streams
    <2> HIDE DEF x
    <2>3. u \in Streams /\ u.stage = stream[k].stage
      BY <1>0, <2>2, StreamField
    <2> HIDE DEF u
    <2> QED BY <2>1, <2>3, Types, Untouched, SafeServerQuiet
  <1> QED
    BY <1>1, <1>2, <1>3, <1>4, SafeRefuse, SafeEstablish, SafeHello, SafeActivate, SafeOpen, SafeServerReceives
    DEF ServerNext

\* A call waits only on a connection that its side still has.
Waits ==
  /\ \A q \in ClientCalls : call[q].st = "sent" => call[q].conn \in Conns /\ Held(call[q].conn)
  /\ \A q \in ServerCalls : call[q].st = "sent" => call[q].conn \in Conns /\ Live(call[q].conn)

\* The requests on their connections say so.
LEMMA TokensWait == SafeInv /\ TokenInv => Waits
  <1> SUFFICES ASSUME SafeInv, TokenInv PROVE Waits
    OBVIOUS
  <1>1. ASSUME NEW q \in Calls, call[q].st = "sent" PROVE call[q].conn \in Conns
    BY <1>1, Types, Numbers DEF TokenInv, Counted, Outcomes
  <1> QED BY <1>1, Numbers DEF Waits, TokenInv, Tokens, TokensAt, ClientToken, ServerToken

\* The timer of a server request.
LEMMA SafeServerTimeout ==
  ASSUME SafeInv, Waits, NEW q \in ServerCalls, ServerCallTimesOut(q)
  PROVE  SafeInv'
  <1> DEFINE k == call[q].conn
  <1>0. /\ k \in Conns /\ Live(k) /\ q \in Calls /\ UNCHANGED <<faults, blamed>>
        /\ "timeout" \in Causes /\ "indeterminate" \in Statuses
    BY Numbers DEF ServerCallTimesOut, Waits, Causes, Statuses
  <1> HIDE DEF k
  <1>1. CASE Acks /\ q \notin stream[k].acked
    <2>1. cleanupStream(k, "timeout", net, call) /\ Dispatched(net, call, k)
      BY <1>0, <1>1, Types, DispatchedCases DEF ServerCallTimesOut, k
    <2> QED BY <1>0, <2>1, Types, SafeCleanup
  <1>2. CASE ~(Acks /\ q \notin stream[k].acked)
    <2> DEFINE x == stream[k].late \cup {q}
               u == [stream[k] EXCEPT !.late = x]
    <2>1. /\ call' = Set(q, "indeterminate") /\ stream' = [stream EXCEPT ![k] = u]
          /\ UNCHANGED <<client, net, reg, expired>>
      BY <1>2 DEF ServerCallTimesOut, k
    <2>2. x \in SUBSET ServerCalls /\ stream[k] \in Streams
      BY <1>0, Types DEF Streams
    <2> HIDE DEF x
    <2>3. u \in Streams /\ u.stage = stream[k].stage
      BY <2>2, StreamField
    <2> HIDE DEF u
    <2>4. Set(q, "indeterminate") \in [Calls -> Outcomes]
      BY <1>0, Types, CallField
    <2> QED BY <1>0, <2>1, <2>3, <2>4, Types, Untouched, SafeServerQuiet
  <1> QED BY <1>1, <1>2

\* Types and control after every step.
LEMMA SafeStep ==
  ASSUME SafeInv, Waits, [Next]_vars
  PROVE  SafeInv'
  <1>1. CASE UNCHANGED vars
    <2>1. UNCHANGED <<client, net, stream, reg, call, faults, expired, blamed>>
      BY <1>1 DEF vars
    <2> QED BY <2>1, Types, Untouched, SafeQuiet
  <1> QED BY <1>1, SafeClient, SafeServer, SafeBreak, SafeServerTimeout DEF Next

\* Types and control at the start.
LEMMA SafeInit == Init => SafeInv
  <1> SUFFICES ASSUME Init PROVE SafeInv
    OBVIOUS
  <1> DEFINE p == [conn |-> 0, phase |-> "idle", enable |-> TRUE, timer |-> FALSE,
                   established |-> FALSE, running |-> {}, unacked |-> {}, late |-> {}]
             o == CHOOSE c \in Clients : TRUE
             w == [owner |-> o, supersede |-> FALSE, health |-> "unused", c2s |-> <<>>, s2c |-> <<>>]
             u == [stage |-> "none", queue |-> <<>>, running |-> {}, acked |-> {}, late |-> {}]
             x == [st |-> "new", conn |-> 0, runs |-> 0]
  <1>1. /\ client = [c \in Clients |-> p] /\ net = [k \in Conns |-> w] /\ stream = [k \in Conns |-> u]
        /\ reg = [pending |-> 0, active |-> 0] /\ call = [q \in Calls |-> x]
        /\ faults = 0 /\ expired = {} /\ blamed = {}
    BY DEF Init
  <1>2. o \in Clients
    BY SrpcAssumption
  <1>3. <<>> \in Seq(UpFrames) /\ <<>> \in Seq(DownFrames) /\ <<>> \in Seq(ClientCalls) /\ 0 \in 0..MaxConns
    BY Numbers
  <1> HIDE DEF o
  <1>4. p \in Peers /\ p.conn = 0 /\ p.phase = "idle" /\ p.running = {} /\ p.unacked = {}
    BY <1>3 DEF Peers, Phases
  <1>5. w \in Links /\ w.owner = o /\ w.health = "unused" /\ w.s2c = <<>>
    BY <1>2, <1>3 DEF Links
  <1>6. u \in Streams /\ u.stage = "none"
    BY <1>3 DEF Streams, Stages
  <1>7. x \in Outcomes
    BY <1>3 DEF Outcomes, Statuses
  <1> HIDE DEF p, w, u, x
  <1>8. /\ \A c \in Clients : client[c] = p
        /\ \A k \in Conns : net[k] = w /\ stream[k] = u
        /\ reg.pending = 0 /\ reg.active = 0
    BY <1>1
  <1>9. TypeInv
    BY <1>1, <1>3, <1>4, <1>5, <1>6, <1>7 DEF TypeInv
  <1>10. Allocation /\ Sockets
    BY <1>4, <1>5, <1>6, <1>8 DEF Allocation, Sockets
  <1>11. EveryLiveStreamIsCurrent
    BY <1>6, <1>8, Numbers DEF EveryLiveStreamIsCurrent, Live, Registered
  <1>12. Announced /\ Told /\ NeverStranded /\ IdleClients
    BY <1>4, <1>5, <1>6, <1>8, NoFrame DEF Announced, Told, NeverStranded, IdleClients
  <1> QED BY <1>9, <1>10, <1>11, <1>12 DEF SafeInv, ControlInv

-----------------------------------------------------------------------------
(***************************************************************************)
(* Every request has one place on its connection.                          *)
(***************************************************************************)

\* A step that gives request q no new place on connection k.
SteadyClient(k, q) ==
  /\ Less(net[k].c2s, net'[k].c2s, q) /\ Less(net[k].s2c, net'[k].s2c, q)
  /\ Queued(stream'[k].queue, q) => Queued(stream[k].queue, q)
  /\ Once(stream[k].queue, q) => Once(stream'[k].queue, q)
  /\ q \in stream'[k].running => q \in stream[k].running
  /\ stream'[k].stage = "none" => stream[k].stage = "none"
  /\ call'[q].st = "sent" /\ call'[q].conn = k =>
        call[q].st = "sent" /\ call[q].conn = k /\ (Held(k) => Held(k)')
  /\ call[q].conn = k /\ call[q].st \in {"sent", "indeterminate"} =>
        /\ call'[q].conn = k /\ call'[q].runs = call[q].runs
        /\ call'[q].st \in {call[q].st, "indeterminate"}
        /\ call'[q].st = "indeterminate" /\ Held(k)' =>
              /\ call[q].st = "indeterminate" => Held(k) /\ (ClientExcuses(k, q) => ClientExcuses(k, q)')
              /\ call[q].st = "sent" => ClientExcuses(k, q)'

SteadyServer(k, q) ==
  /\ Less(net[k].c2s, net'[k].c2s, q) /\ Less(net[k].s2c, net'[k].s2c, q)
  /\ Handling(k, q)' => /\ Handling(k, q)
                        /\ q \in (client[Owner(k)].unacked)' => q \in client[Owner(k)].unacked
  /\ call'[q].conn = k =>
        call[q].conn = k /\ (stream[k].stage \in Invocable => stream'[k].stage \in Invocable)
  /\ call'[q].st = "sent" /\ call'[q].conn = k => call[q].st = "sent" /\ (Live(k) => Live(k)')
  /\ call[q].conn = k /\ call[q].st \in {"sent", "indeterminate"} =>
        /\ call'[q].conn = k /\ call'[q].runs = call[q].runs
        /\ call'[q].st \in {call[q].st, "indeterminate"}
        /\ call'[q].st = "indeterminate" /\ Live(k)' =>
              /\ call[q].st = "indeterminate" => Live(k) /\ (ServerExcuses(k, q) => ServerExcuses(k, q)')
              /\ call[q].st = "sent" => ServerExcuses(k, q)'

\* Such a step keeps the request in one place.
LEMMA ClientKept ==
  ASSUME NEW k \in Conns, NEW q \in ClientCalls, ClientToken(k, q), SteadyClient(k, q)
  PROVE  ClientToken(k, q)'
  BY DEF ClientToken, SteadyClient, Less

\* And a request of the server.
LEMMA ServerKept ==
  ASSUME NEW k \in Conns, NEW q \in ServerCalls, ServerToken(k, q), SteadyServer(k, q)
  PROVE  ServerToken(k, q)'
  BY DEF ServerToken, SteadyServer, Less

\* A connection that a step does not concern.
Still(k) ==
  /\ net'[k] = net[k] /\ stream'[k] = stream[k] /\ expired \subseteq expired'
  /\ Held(k)' <=> Held(k)
  /\ Held(k) => /\ (client[Owner(k)].running)' = client[Owner(k)].running
                /\ (client[Owner(k)].unacked)' = client[Owner(k)].unacked
                /\ client[Owner(k)].late \subseteq (client[Owner(k)].late)'
  /\ \A q \in Calls : /\ call[q].conn = k /\ call[q].st \in {"sent", "indeterminate"} => call'[q] = call[q]
                      /\ call'[q].st = "sent" /\ call'[q].conn = k => call[q].st = "sent"
                      /\ call'[q].conn = k => call[q].conn = k

\* Its requests stay where they are.
LEMMA StillKept ==
  ASSUME SafeInv, Tokens, NEW k \in Conns, Still(k)
  PROVE  TokensAt(k)'
  <1>1. net[k].c2s \in Seq(UpFrames) /\ net[k].s2c \in Seq(DownFrames)
    BY Types DEF Links
  <1>2. Fewer(net[k].c2s, net[k].c2s) /\ Fewer(net[k].s2c, net[k].s2c)
    BY <1>1, FewerFrames
  <1>3. ASSUME NEW q \in ClientCalls PROVE ClientToken(k, q)'
    <2>1. q \in Calls /\ ClientToken(k, q)
      BY Numbers DEF Tokens, TokensAt
    <2>2. SteadyClient(k, q)
      BY <1>2, <2>1 DEF Still, SteadyClient, Fewer, ClientExcuses
    <2> QED BY <2>1, <2>2, ClientKept
  <1>4. ASSUME NEW q \in ServerCalls PROVE ServerToken(k, q)'
    <2>1. q \in Calls /\ ServerToken(k, q)
      BY Numbers DEF Tokens, TokensAt
    <2>2. Live(k)' <=> Live(k)
      BY DEF Still, Live
    <2>3. SteadyServer(k, q)
      BY <1>2, <2>1, <2>2 DEF Still, SteadyServer, Fewer, ServerExcuses, Handling
    <2> QED BY <2>1, <2>3, ServerKept
  <1> QED BY <1>3, <1>4 DEF TokensAt

\* A step that gives no request of connection k a new place.
LEMMA SteadyKept ==
  ASSUME Tokens, NEW k \in Conns, \A q \in ClientCalls : SteadyClient(k, q),
         \A q \in ServerCalls : SteadyServer(k, q)
  PROVE  TokensAt(k)'
  BY ClientKept, ServerKept DEF Tokens, TokensAt

\* The connections one by one.
LEMMA TokensStep ==
  ASSUME SafeInv, Tokens, \A i \in Conns : Still(i) \/ TokensAt(i)'
  PROVE  Tokens'
  BY StillKept DEF Tokens

\* What a step may do to the calls: one is sent, refused or answered, or some are
\* given up and some handlers start for the first time.
CallsMove ==
  \/ \E q \in Calls :
        /\ \A p \in Calls \ {q} : call'[p] = call[p]
        /\ call'[q].runs = call[q].runs
        /\ \/ call[q].st = "new" /\ call'[q].st = "refused"
           \/ call[q].st = "new" /\ call'[q].st = "sent" /\ call'[q].conn # 0
           \/ call[q].st = "sent" /\ call[q].runs = 1 /\ call'[q].st = "result"
  \/ \A q \in Calls :
        /\ call'[q].st = call[q].st \/ (call[q].st = "sent" /\ call'[q].st = "indeterminate")
        /\ call'[q].conn = call[q].conn
        /\ \/ call'[q].runs = call[q].runs
           \/ call[q].runs = 0 /\ call'[q].runs = 1 /\ call[q].st \in {"sent", "indeterminate"}

\* What has to be shown of a step.
TokenStep == Tokens' /\ Receipted' /\ CallsMove /\ LateAnswersAreForgiven'

\* The count of starts follows.
LEMMA TokenInvStep ==
  ASSUME TokenInv, TokenStep
  PROVE  TokenInv'
  <1>1. ASSUME NEW q \in Calls PROVE Counted(q)'
    <2>1. Counted(q)
      BY DEF TokenInv
    <2> QED BY <2>1 DEF Counted, TokenStep, CallsMove
  <1> QED BY <1>1 DEF TokenInv, TokenStep

\* A client has dropped its connection.
Left(c, k) ==
  /\ client[c].conn = k /\ client'[c].conn = 0 /\ client'[c].running = {} /\ client'[c].unacked = {}
  /\ \A d \in Clients \ {c} : client'[d] = client[d]
  /\ SocketDropped(k)
  /\ call' = Abandon(Waiting(k, ClientCalls))
  /\ UNCHANGED <<stream, reg, expired>>

\* The requests of the connection are given up, and nothing else changes.
LEMMA LeftTokens ==
  ASSUME SafeInv, TokenInv, NEW c \in Clients, NEW k \in Conns, Left(c, k)
  PROVE  Tokens' /\ Receipted' /\ CallsMove
  <1> DEFINE W == Waiting(k, ClientCalls)
  <1>0. /\ Tokens /\ Receipted /\ client[c].conn = k /\ net[k].owner = c /\ 0 \notin Conns
        /\ ClientCalls \cap ServerCalls = {}
    BY SocketType, Numbers, SrpcAssumption DEF Left, TokenInv
  <1>1. /\ client'[c].conn = 0 /\ client'[c].running = {} /\ client'[c].unacked = {}
        /\ \A d \in Clients \ {c} : client'[d] = client[d]
        /\ net'[k].s2c = <<>> /\ Fewer(net[k].c2s, net'[k].c2s)
        /\ \A i \in Conns : net'[i].owner = net[i].owner /\ (i # k => net'[i] = net[i])
        /\ stream' = stream /\ expired' = expired
    BY DEF Left, SocketDropped
  <1>2. \A q \in Calls : /\ call'[q].conn = call[q].conn /\ call'[q].runs = call[q].runs
                         /\ q \in W => call'[q].st = "indeterminate"
                         /\ q \notin W => call'[q] = call[q]
    BY Types, AbandonType DEF Left
  <1>3. \A q : q \in W <=> q \in ClientCalls /\ call[q].st = "sent" /\ call[q].conn = k
    BY WaitingType
  <1> HIDE DEF W
  <1>4. \A i \in Conns : net[i].owner \in Clients
    BY Types DEF Links
  <1>5. ASSUME NEW i \in Conns, i # k PROVE Still(i)
    <2>1. Held(i)' <=> Held(i)
      BY <1>0, <1>1, <1>4, <1>5 DEF Held, OnSocket, Owner
    <2>2. Held(i) => net[i].owner # c
      BY <1>0, <1>5 DEF Held, OnSocket, Owner
    <2> QED BY <1>1, <1>2, <1>3, <1>4, <1>5, <2>1, <2>2 DEF Still, Owner
  <1>6. TokensAt(k)'
    <2>1. ~Held(k)'
      BY <1>0, <1>1 DEF Held, OnSocket, Owner
    <2>2. Fewer(net[k].s2c, net'[k].s2c)
      BY <1>0, <1>1, Types, FewerFrames DEF Links
    <2>3. ASSUME NEW q \in ClientCalls PROVE SteadyClient(k, q)
      BY <1>1, <1>2, <1>3, <2>1, <2>2, Numbers DEF SteadyClient, Fewer
    <2>4. ASSUME NEW q \in ServerCalls PROVE SteadyServer(k, q)
      <3>1. q \in Calls /\ call'[q] = call[q] /\ (Live(k)' <=> Live(k))
        BY <1>0, <1>1, <1>2, <1>3, Numbers DEF Live
      <3> QED BY <1>1, <2>1, <2>2, <3>1 DEF SteadyServer, Fewer, Handling, ServerExcuses
    <2> QED BY <1>0, <2>3, <2>4, SteadyKept
  <1>7. Tokens'
    BY <1>0, <1>5, <1>6, TokensStep
  <1>8. Receipted'
    BY <1>0, <1>1 DEF Receipted
  <1>9. CallsMove
    BY <1>2, <1>3 DEF CallsMove
  <1> QED BY <1>7, <1>8, <1>9

\* The ways to drop a connection.
LEMMA RevokeLeaves ==
  ASSUME SafeInv, NEW c \in Clients, NEW k \in Conns, client[c].conn = k, NEW cause, NEW suppress \in BOOLEAN,
         NEW n \in [Conns -> Links], Goodbye(n, k), revokeGeneration(c, cause, suppress, n)
  PROVE  Left(c, k)
  <1>1. Goodbye(n, client[c].conn) /\ client[c].conn \in Conns
    OBVIOUS
  <1>2. /\ \A d \in Clients \ {c} : client'[d] = client[d]
        /\ client'[c].conn = 0 /\ client'[c].running = {} /\ client'[c].unacked = {}
    BY <1>1, Types, RevokeEffect, ZenonT(60)
  <1>3. /\ SocketDropped(client[c].conn) /\ call' = Abandon(Waiting(client[c].conn, ClientCalls))
        /\ UNCHANGED <<stream, reg, expired>>
    BY <1>1, Types, RevokeEffect, ZenonT(60)
  <1>4. SocketDropped(k)
    BY <1>3 DEF SocketDropped
  <1> QED BY <1>2, <1>3, <1>4 DEF Left

\* A client starts a generation: the requests of the connection it held are given
\* up, and the new one has none.
LEMMA StartTokens ==
  ASSUME SafeInv, TokenInv, NEW c \in Clients, NEW old, client[c].conn = old,
         NEW supersede \in BOOLEAN, StartGeneration(c, supersede)
  PROVE  TokenStep
  <1> DEFINE W == IF client[c].conn = 0 THEN {} ELSE Waiting(client[c].conn, ClientCalls)
  <1>0. /\ Tokens /\ Receipted /\ Allocation /\ Sockets /\ 0 \notin Conns
        /\ ClientCalls \cap ServerCalls = {} /\ (old # 0 => net[old].owner = c /\ old \in Conns)
        /\ LateAnswersAreForgiven
    BY SocketType, Numbers, SrpcAssumption DEF TokenInv, SafeInv, ControlInv
  <1>1. PICK k \in Conns :
        /\ net[k].health = "unused" /\ \A d \in Clients \ {c} : client'[d] = client[d]
        /\ client'[c].conn = k /\ client'[c].running = {} /\ client'[c].unacked = {}
        /\ net'[k].owner = c /\ net'[k].c2s = <<>> /\ net'[k].s2c = <<>>
        /\ \A i \in Conns \ {k} :
              /\ net'[i].owner = net[i].owner
              /\ i # client[c].conn => net'[i] = net[i]
              /\ i = client[c].conn => net'[i].s2c = <<>> /\ Fewer(net[i].c2s, net'[i].c2s)
        /\ \A i \in Conns \ {k} : stream'[i] = stream[i]
        /\ stream'[k].stage = "auth" /\ stream'[k].queue = stream[k].queue
        /\ stream'[k].running = stream[k].running
        /\ call' = Abandon(W)
        /\ UNCHANGED <<reg, expired, blamed>>
    BY <1>0, Types, StartEffect
  <1>2. \A q \in Calls : /\ call'[q].conn = call[q].conn /\ call'[q].runs = call[q].runs
                         /\ q \in W => call'[q].st = "indeterminate"
                         /\ q \notin W => call'[q] = call[q]
    BY <1>1, Types, AbandonType
  <1>3. \A q : q \in W <=> q \in ClientCalls /\ call[q].st = "sent" /\ call[q].conn = old /\ old # 0
    BY WaitingType
  <1>4. \A i \in Conns : net[i].owner \in Clients
    BY Types DEF Links
  <1>5. k # old /\ stream[k].stage = "none" /\ k # 0
    BY <1>0, <1>1 DEF Allocation, Sockets
  <1> HIDE DEF W
  <1>6. \A d \in Clients : client[d].conn # k
    BY <1>0, <1>1 DEF Sockets
  <1>7. ASSUME NEW i \in Conns, i # k, i # old PROVE Still(i)
    <2>1. /\ net'[i] = net[i] /\ stream'[i] = stream[i] /\ expired' = expired /\ client'[c].conn # i
          /\ \A d \in Clients \ {c} : client'[d] = client[d]
      BY <1>1, <1>7
    <2>2. Held(i)' <=> Held(i)
      BY <1>4, <1>7, <2>1 DEF Held, OnSocket, Owner
    <2>3. Held(i) => net[i].owner # c
      BY <1>7 DEF Held, OnSocket, Owner
    <2> QED BY <1>2, <1>3, <1>4, <1>7, <2>1, <2>2, <2>3 DEF Still, Owner
  <1>8. ASSUME old # 0 PROVE TokensAt(old)'
    <2>0. old \in Conns /\ old # k
      BY <1>0, <1>5, <1>8
    <2>9. /\ net'[old].owner = c /\ net'[old].s2c = <<>> /\ Fewer(net[old].c2s, net'[old].c2s)
          /\ stream'[old] = stream[old] /\ expired' = expired /\ client'[c].conn # old
      BY <1>0, <1>1, <1>8, <2>0
    <2>1. ~Held(old)'
      BY <2>9 DEF Held, OnSocket, Owner
    <2>2. Fewer(net[old].s2c, net'[old].s2c)
      BY <2>0, <2>9, Types, FewerFrames DEF Links
    <2>3. ASSUME NEW q \in ClientCalls PROVE SteadyClient(old, q)
      BY <1>2, <1>3, <1>8, <2>1, <2>2, <2>9, Numbers DEF SteadyClient, Fewer
    <2>4. ASSUME NEW q \in ServerCalls PROVE SteadyServer(old, q)
      <3>1. q \in Calls /\ call'[q] = call[q] /\ (Live(old)' <=> Live(old))
        BY <1>0, <1>2, <1>3, <2>9, Numbers DEF Live
      <3> QED BY <2>1, <2>2, <2>9, <3>1 DEF SteadyServer, Fewer, Handling, ServerExcuses
    <2> QED BY <1>0, <2>0, <2>3, <2>4, SteadyKept
  <1>9. TokensAt(k)'
    <2>1. Held(k)' /\ \A q : ~Handling(k, q)'
      BY <1>1 DEF Held, Handling, OnSocket, Owner
    <2>2. ~Held(k)
      BY <1>4, <1>6 DEF Held, OnSocket, Owner
    <2>3. ASSUME NEW q \in ClientCalls PROVE ClientToken(k, q)'
      <3>1. /\ ~Queued(stream'[k].queue, q) /\ q \notin stream'[k].running /\ Once(stream'[k].queue, q)
            /\ ~(call[q].st = "sent" /\ call[q].conn = k)
        BY <1>0, <1>1, <1>5, <2>2 DEF Tokens, TokensAt, ClientToken
      <3>2. ~(call'[q].st = "sent" /\ call'[q].conn = k)
        BY <1>2, <3>1, Numbers
      <3> QED BY <1>1, <3>1, <3>2, NoFrame DEF ClientToken
    <2>4. ASSUME NEW q \in ServerCalls PROVE ServerToken(k, q)'
      <3>1. call[q].conn # k
        BY <1>0, <1>5 DEF Tokens, TokensAt, ServerToken, Invocable
      <3>2. call'[q].conn # k
        BY <1>2, <3>1, Numbers
      <3> QED BY <1>1, <2>1, <3>2, NoFrame DEF ServerToken
    <2> QED BY <2>3, <2>4 DEF TokensAt
  <1>10. Tokens'
    BY <1>0, <1>7, <1>8, <1>9, TokensStep
  <1>11. Receipted'
    BY <1>0, <1>1 DEF Receipted
  <1>12. CallsMove
    BY <1>2, <1>3 DEF CallsMove
  <1>13. LateAnswersAreForgiven'
    BY <1>0, <1>1 DEF LateAnswersAreForgiven
  <1> QED BY <1>10, <1>11, <1>12, <1>13 DEF TokenStep

\* Answers that are not replies are receipts.
LEMMA OnlyReceipts ==
  /\ \A s \in Seq(UpFrames), q \in ServerCalls :
        ~Replies(s, q) => \A i \in DOMAIN s : s[i].q = q => s[i].t = "ack"
  /\ \A s \in Seq(DownFrames), q \in ClientCalls :
        ~Replies(s, q) => \A i \in DOMAIN s : s[i].q = q => s[i].t = "ack"
  <1>1. ASSUME NEW s \in Seq(UpFrames), NEW q \in ServerCalls, ~Replies(s, q), NEW i \in DOMAIN s, s[i].q = q
        PROVE  s[i].t = "ack"
    <2>1. s[i] \in UpFrames
      BY <1>1
    <2>2. q # 0 /\ q \notin ClientCalls
      BY SrpcAssumption
    <2> QED BY <1>1, <2>1, <2>2, FrameFields DEF Replies
  <1>2. ASSUME NEW s \in Seq(DownFrames), NEW q \in ClientCalls, ~Replies(s, q), NEW i \in DOMAIN s, s[i].q = q
        PROVE  s[i].t = "ack"
    <2>1. s[i] \in DownFrames
      BY <1>2
    <2>2. q # 0 /\ q \notin ServerCalls
      BY SrpcAssumption
    <2> QED BY <1>2, <2>1, <2>2, FrameFields DEF Replies
  <1> QED BY <1>1, <1>2

\* A frame about request q joins queue s.
Joins(s, u, q, t) ==
  /\ \A p \in Calls \ {q} : Less(s, u, p)
  /\ Replies(u, q) => Replies(s, q) \/ t = "reply"
  /\ Ordered(s, q) /\ ~About(s, q) => Ordered(u, q)

\* A client writes a frame about request q.
LEMMA UpTokens ==
  ASSUME TypeInv, NEW k \in Conns, NEW m \in UpFrames, NEW q \in Calls, m.q = q, net' = Up(net, k, m)
  PROVE  /\ \A i \in Conns \ {k} : net'[i] = net[i]
         /\ net'[k].owner = net[k].owner /\ net'[k].s2c = net[k].s2c
         /\ Joins(net[k].c2s, net'[k].c2s, q, m.t)
         /\ q \in ServerCalls /\ m.t = "reply" /\ Ordered(net[k].c2s, q) /\ ~Replies(net[k].c2s, q)
               => Ordered(net'[k].c2s, q)
  <1> DEFINE x == net[k].c2s
             y == net'[k].c2s
  <1>1. x \in Seq(UpFrames)
    BY DEF TypeInv, Links
  <1>2. /\ \A i \in Conns \ {k} : net'[i] = net[i]
        /\ net'[k].s2c = net[k].s2c
        /\ y = Append(x, m) \/ y = x
    BY UpEffect
  <1>3. net'[k].owner = net[k].owner
    BY UpEffect DEF LinksAlike
  <1> HIDE DEF x, y
  <1>4. /\ \A p : About(Append(x, m), p) <=> About(x, p) \/ m.q = p
        /\ \A p : Replies(Append(x, m), p) <=> Replies(x, p) \/ (m.q = p /\ m.t = "reply")
        /\ \A p : Ordered(x, p) /\ (m.q = p /\ About(x, p) => m.t = "reply" /\ ~Replies(x, p)
                                                              /\ \A i \in DOMAIN x : x[i].q = p => x[i].t = "ack")
                      => Ordered(Append(x, m), p)
    BY <1>1, AppendFrame
  <1>5. Joins(x, y, q, m.t)
    BY <1>2, <1>4 DEF Joins, Less
  <1>6. q \in ServerCalls /\ m.t = "reply" /\ Ordered(x, q) /\ ~Replies(x, q) => Ordered(y, q)
    BY <1>1, <1>2, <1>4, OnlyReceipts
  <1> QED BY <1>2, <1>3, <1>5, <1>6 DEF x, y

\* The server writes a frame about request q.
LEMMA DownTokens ==
  ASSUME TypeInv, NEW k \in Conns, NEW m \in DownFrames, NEW q \in Calls, m.q = q, m.t # "activated",
         net' = Down(net, k, m)
  PROVE  /\ \A i \in Conns \ {k} : net'[i] = net[i]
         /\ net'[k].owner = net[k].owner /\ net'[k].c2s = net[k].c2s
         /\ Joins(net[k].s2c, net'[k].s2c, q, m.t)
         /\ q \in ClientCalls /\ m.t = "reply" /\ Ordered(net[k].s2c, q) /\ ~Replies(net[k].s2c, q)
               => Ordered(net'[k].s2c, q)
  <1> DEFINE x == net[k].s2c
             y == net'[k].s2c
  <1>1. x \in Seq(DownFrames)
    BY DEF TypeInv, Links
  <1>2. /\ \A i \in Conns \ {k} : net'[i] = net[i]
        /\ net'[k].c2s = net[k].c2s
        /\ y = Append(x, m) \/ y = x
    BY DownEffect
  <1>3. net'[k].owner = net[k].owner
    BY DownEffect DEF LinksAlike
  <1> HIDE DEF x, y
  <1>4. /\ \A p : About(Append(x, m), p) <=> About(x, p) \/ m.q = p
        /\ \A p : Replies(Append(x, m), p) <=> Replies(x, p) \/ (m.q = p /\ m.t = "reply")
        /\ \A p : Ordered(x, p) /\ (m.q = p /\ About(x, p) => m.t = "reply" /\ ~Replies(x, p)
                                                              /\ \A i \in DOMAIN x : x[i].q = p => x[i].t = "ack")
                      => Ordered(Append(x, m), p)
    BY <1>1, AppendFrame
  <1>5. Joins(x, y, q, m.t)
    BY <1>2, <1>4 DEF Joins, Less
  <1>6. q \in ClientCalls /\ m.t = "reply" /\ Ordered(x, q) /\ ~Replies(x, q) => Ordered(y, q)
    BY <1>1, <1>2, <1>4, OnlyReceipts
  <1> QED BY <1>2, <1>3, <1>5, <1>6 DEF x, y

\* Frame m is the head of queue s and leaves it.
Leaves(s, u, m) ==
  /\ Fewer(s, u)
  /\ About(s, m.q)
  /\ m.t = "reply" => Replies(s, m.q)
  /\ Ordered(s, m.q) /\ m.t # "ack" => ~About(u, m.q)

\* A client receives a frame.
LEMMA PopDownTokens ==
  ASSUME TypeInv, NEW k \in Conns, net[k].s2c # <<>>, net' = PopDown(k)
  PROVE  /\ \A i \in Conns \ {k} : net'[i] = net[i]
         /\ net'[k].owner = net[k].owner /\ net'[k].c2s = net[k].c2s
         /\ Leaves(net[k].s2c, net'[k].s2c, Head(net[k].s2c))
  <1> DEFINE x == net[k].s2c
  <1>1. /\ \A i \in Conns \ {k} : net'[i] = net[i]
        /\ net'[k].owner = net[k].owner /\ net'[k].c2s = net[k].c2s
        /\ net'[k].s2c = Tail(x)
    BY PopType
  <1>2. x \in Seq(DownFrames) /\ x # <<>>
    BY DEF TypeInv, Links
  <1> HIDE DEF x
  <1>3. Leaves(x, Tail(x), Head(x))
    BY <1>2, TailFrame, FewerFrames DEF Leaves
  <1> QED BY <1>1, <1>3 DEF x

\* The server receives a frame.
LEMMA PopUpTokens ==
  ASSUME TypeInv, NEW k \in Conns, net[k].c2s # <<>>
  PROVE  /\ \A i \in Conns \ {k} : PopUp(k)[i] = net[i]
         /\ PopUp(k)[k].owner = net[k].owner /\ PopUp(k)[k].s2c = net[k].s2c
         /\ Leaves(net[k].c2s, PopUp(k)[k].c2s, Head(net[k].c2s))
  <1> DEFINE x == net[k].c2s
  <1>1. /\ \A i \in Conns \ {k} : PopUp(k)[i] = net[i]
        /\ PopUp(k)[k].owner = net[k].owner /\ PopUp(k)[k].s2c = net[k].s2c
        /\ PopUp(k)[k].c2s = Tail(x)
    BY PopType
  <1>2. x \in Seq(UpFrames) /\ x # <<>>
    BY DEF TypeInv, Links
  <1> HIDE DEF x
  <1>3. Leaves(x, Tail(x), Head(x))
    BY <1>2, TailFrame, FewerFrames DEF Leaves
  <1> QED BY <1>1, <1>3 DEF x

\* The calls of connection k as a step elsewhere leaves them.
StillCalls(k) ==
  \A q \in Calls : /\ call[q].conn = k /\ call[q].st \in {"sent", "indeterminate"} => call'[q] = call[q]
                   /\ call'[q].st = "sent" /\ call'[q].conn = k => call[q].st = "sent"
                   /\ call'[q].conn = k => call[q].conn = k

\* A step of the client that holds another connection, or none.
LEMMA HolderStill ==
  ASSUME SafeInv, NEW c \in Clients, NEW k, client[c].conn = k, client'[c].conn = k,
         \A d \in Clients \ {c} : client'[d] = client[d],
         NEW i \in Conns, i # k, net'[i] = net[i], stream'[i] = stream[i], expired \subseteq expired',
         StillCalls(i)
  PROVE  Still(i)
  <1>1. net[i].owner \in Clients
    BY Types DEF Links
  <1>2. Held(i)' <=> Held(i)
    BY <1>1 DEF Held, OnSocket, Owner
  <1>3. Held(i) => net[i].owner # c
    BY DEF Held, OnSocket, Owner
  <1> QED BY <1>1, <1>2, <1>3 DEF Still, Owner, StillCalls

\* A step of the server.
LEMMA ServerStill ==
  ASSUME client' = client, NEW i \in Conns, net'[i] = net[i], stream'[i] = stream[i],
         expired \subseteq expired', StillCalls(i)
  PROVE  Still(i)
  BY DEF Still, Held, OnSocket, Owner, StillCalls

\* A step of a client about its own connection, for the requests Q that it gives no
\* new place.
LEMMA HolderSteady ==
  ASSUME SafeInv, Tokens, NEW c \in Clients, NEW k \in Conns, client[c].conn = k, client'[c].conn = k,
         net'[k].owner = net[k].owner, NEW Q \in SUBSET Calls,
         \A q \in Q : Less(net[k].c2s, net'[k].c2s, q) /\ Less(net[k].s2c, net'[k].s2c, q),
         stream'[k] = stream[k],
         \A q \in Q : /\ q \in client'[c].running => q \in client[c].running
                      /\ q \in client'[c].unacked => q \in client[c].unacked,
         client[c].late \cup expired \subseteq client'[c].late \cup expired', expired \subseteq expired',
         \A q \in Q : \/ call'[q] = call[q]
                      \/ /\ q \in ClientCalls /\ q \in client'[c].late
                         /\ call[q].st = "sent" /\ call'[q].st = "indeterminate"
                         /\ call'[q].conn = call[q].conn /\ call'[q].runs = call[q].runs
  PROVE  /\ \A q \in ClientCalls \cap Q : ClientToken(k, q)'
         /\ \A q \in ServerCalls \cap Q : ServerToken(k, q)'
  <1>1. Owner(k) = c /\ Owner(k)' = c /\ net[k].owner = c /\ net'[k].owner = c
    BY SocketType, Numbers DEF Owner
  <1>2. Held(k) /\ Held(k)' /\ (Live(k)' <=> Live(k))
    BY <1>1 DEF Held, OnSocket, Owner, Live
  <1>3. ASSUME NEW q \in ClientCalls \cap Q PROVE ClientToken(k, q)'
    <2>1. ClientExcuses(k, q) => ClientExcuses(k, q)'
      BY <1>1 DEF ClientExcuses, Owner
    <2>2. q \in client'[c].late => ClientExcuses(k, q)'
      BY <1>1 DEF ClientExcuses, Owner
    <2>3. SteadyClient(k, q)
      BY <1>2, <2>1, <2>2 DEF SteadyClient
    <2> QED BY <2>3, ClientKept DEF Tokens, TokensAt
  <1>4. ASSUME NEW q \in ServerCalls \cap Q PROVE ServerToken(k, q)'
    <2>1. call'[q] = call[q]
      BY SrpcAssumption
    <2>2. ServerExcuses(k, q) => ServerExcuses(k, q)'
      BY DEF ServerExcuses
    <2>3. Handling(k, q)' => Handling(k, q) /\ (q \in (client[Owner(k)].unacked)' => q \in client[Owner(k)].unacked)
      BY <1>1, <1>2 DEF Handling, Owner
    <2>4. SteadyServer(k, q)
      BY <1>2, <2>1, <2>2, <2>3 DEF SteadyServer
    <2> QED BY <2>4, ServerKept DEF Tokens, TokensAt
  <1> QED BY <1>3, <1>4

\* A step of a client that gives no request a new place.
LEMMA HolderQuiet ==
  ASSUME SafeInv, TokenInv, NEW c \in Clients, NEW k, client[c].conn = k, client'[c].conn = k,
         \A d \in Clients \ {c} : client'[d] = client[d],
         \A i \in Conns \ {k} : net'[i] = net[i], stream' = stream, expired \subseteq expired', blamed' = blamed,
         call' = call,
         client'[c].running = client[c].running, client'[c].unacked = client[c].unacked,
         client[c].late \cup expired \subseteq client'[c].late \cup expired',
         k \in Conns => /\ net'[k].owner = net[k].owner
                        /\ Fewer(net[k].c2s, net'[k].c2s) /\ Fewer(net[k].s2c, net'[k].s2c)
  PROVE  TokenStep
  <1>1. \A i \in Conns : StillCalls(i)
    BY DEF StillCalls
  <1>2. \A i \in Conns \ {k} : Still(i)
    BY <1>1, HolderStill
  <1>3. ASSUME k \in Conns PROVE TokensAt(k)'
    <2>1. \A q \in Calls : Less(net[k].c2s, net'[k].c2s, q) /\ Less(net[k].s2c, net'[k].s2c, q)
      BY <1>3 DEF Fewer
    <2>2. /\ \A q \in ClientCalls \cap Calls : ClientToken(k, q)'
          /\ \A q \in ServerCalls \cap Calls : ServerToken(k, q)'
      BY <1>3, <2>1, HolderSteady DEF TokenInv
    <2> QED BY <2>2, Numbers DEF TokensAt
  <1>4. Tokens'
    BY <1>2, <1>3, TokensStep DEF TokenInv
  <1>5. Receipted' /\ CallsMove /\ LateAnswersAreForgiven'
    BY DEF TokenInv, Receipted, CallsMove, LateAnswersAreForgiven
  <1> QED BY <1>4, <1>5 DEF TokenStep

\* One call changes its status, starts its handler, or is sent.
LEMMA CallChanges ==
  ASSUME TypeInv, NEW q \in Calls, NEW x \in Statuses, call' = Set(q, x)
  PROVE  /\ \A p \in Calls \ {q} : call'[p] = call[p]
         /\ call'[q].st = x /\ call'[q].conn = call[q].conn /\ call'[q].runs = call[q].runs
  <1> DEFINE f == Set(q, x)
  <1>1. /\ \A p \in Calls \ {q} : f[p] = call[p]
        /\ f[q].st = x /\ f[q].conn = call[q].conn /\ f[q].runs = call[q].runs
    BY CallField, ZenonT(60)
  <1>2. call' = f
    OBVIOUS
  <1> HIDE DEF f
  <1> QED BY <1>1, <1>2

\* The same for a handler.
LEMMA CallStarts ==
  ASSUME TypeInv, NEW q \in Calls, call' = [call EXCEPT ![q].runs = @ + 1]
  PROVE  /\ \A p \in Calls \ {q} : call'[p] = call[p]
         /\ call'[q].st = call[q].st /\ call'[q].conn = call[q].conn /\ call'[q].runs = call[q].runs + 1
  <1> DEFINE f == [call EXCEPT ![q].runs = @ + 1]
  <1>1. /\ \A p \in Calls \ {q} : f[p] = call[p]
        /\ f[q].st = call[q].st /\ f[q].conn = call[q].conn /\ f[q].runs = call[q].runs + 1
    BY CallField
  <1>2. call' = f
    OBVIOUS
  <1> HIDE DEF f
  <1> QED BY <1>1, <1>2

\* And for a request that is written.
LEMMA CallIsSent ==
  ASSUME TypeInv, NEW q \in Calls, NEW k \in Conns,
         call' = [call EXCEPT ![q] = [call[q] EXCEPT !.st = "sent", !.conn = k]]
  PROVE  /\ \A p \in Calls \ {q} : call'[p] = call[p]
         /\ call'[q].st = "sent" /\ call'[q].conn = k /\ call'[q].runs = call[q].runs
  <1> DEFINE f == [call EXCEPT ![q] = [call[q] EXCEPT !.st = "sent", !.conn = k]]
  <1>1. /\ \A p \in Calls \ {q} : f[p] = call[p]
        /\ f[q].st = "sent" /\ f[q].conn = k /\ f[q].runs = call[q].runs
    BY CallField, ZenonT(60)
  <1>2. call' = f
    OBVIOUS
  <1> HIDE DEF f
  <1> QED BY <1>1, <1>2

\* A client drops its connection and blames no living request for it.
LEMMA LeftStep ==
  ASSUME SafeInv, TokenInv, NEW c \in Clients, NEW k \in Conns, Left(c, k), blamed' \ {0} \subseteq expired
  PROVE  TokenStep
  <1>1. Tokens' /\ Receipted' /\ CallsMove
    BY LeftTokens
  <1>2. expired' = expired
    BY DEF Left
  <1> QED BY <1>1, <1>2 DEF TokenStep, LateAnswersAreForgiven

\* closeGenerationWithError().
LEMMA CloseStep ==
  ASSUME SafeInv, TokenInv, NEW c \in Clients, NEW k \in Conns, client[c].conn = k,
         NEW q, q = 0 \/ q \in expired, closeGenerationWithError(c, q)
  PROVE  TokenStep
  <1> DEFINE n == Up(net, k, Close("badArg"))
  <1>1. revokeGeneration(c, "badArg", FALSE, n) /\ blamed' = blamed \cup {q}
    BY DEF closeGenerationWithError
  <1>2. Goodbye(n, k)
    BY Types, GoodbyeCases DEF Causes
  <1>3. n \in [Conns -> Links]
    BY <1>2 DEF Goodbye
  <1> HIDE DEF n
  <1>4. Left(c, k)
    BY <1>1, <1>2, <1>3, RevokeLeaves
  <1>5. blamed' \ {0} \subseteq expired
    BY <1>1 DEF TokenInv, LateAnswersAreForgiven
  <1> QED BY <1>4, <1>5, LeftStep

\* A client is answered only for requests it knows, or knew.
LEMMA ClientIsAnswered ==
  ASSUME SafeInv, TokenInv, NEW c \in Clients, NEW k \in Conns, client[c].conn = k, NEW q \in ClientCalls,
         About(net[k].s2c, q), ~ClientKnows(c, k, q)
  PROVE  q \in expired
  <1>1. ClientToken(k, q) /\ Owner(k) = c /\ Held(k)
    BY SocketType, Numbers DEF TokenInv, Tokens, TokensAt, Owner, Held, OnSocket
  <1> QED BY <1>1, WaitingType DEF ClientToken, ClientKnows, ClientExcuses

\* A server request reaches the client.
LEMMA AdmitStep ==
  ASSUME SafeInv, TokenInv, NEW c \in Clients, NEW k \in Conns, client[c].conn = k, NEW q \in ServerCalls,
         net[k].s2c # <<>>, Head(net[k].s2c).q = q, Head(net[k].s2c).t = "request", net' = PopDown(k),
         client'[c].conn = k, \A d \in Clients \ {c} : client'[d] = client[d],
         client'[c].running = client[c].running \cup {q},
         client'[c].unacked \subseteq client[c].unacked \cup {q}, client'[c].late = client[c].late,
         call' = [call EXCEPT ![q].runs = @ + 1], UNCHANGED <<stream, expired, blamed>>
  PROVE  TokenStep
  <1>0. Tokens /\ Receipted /\ q \in Calls /\ q \notin ClientCalls /\ net[k].owner = c
    BY SocketType, Numbers, SrpcAssumption DEF TokenInv
  <1>1. /\ \A i \in Conns \ {k} : net'[i] = net[i]
        /\ net'[k].owner = net[k].owner /\ net'[k].c2s = net[k].c2s
        /\ Leaves(net[k].s2c, net'[k].s2c, Head(net[k].s2c))
    BY Types, PopDownTokens
  <1>2. /\ About(net[k].s2c, q) /\ \A p \in Calls : Less(net[k].s2c, net'[k].s2c, p)
        /\ Ordered(net[k].s2c, q) => ~About(net'[k].s2c, q)
    BY <1>1 DEF Leaves, Fewer
  <1>3. ServerToken(k, q)
    BY <1>0 DEF Tokens, TokensAt
  <1>4. /\ call[q].conn = k /\ call[q].st \in {"sent", "indeterminate"} /\ call[q].runs = 0
        /\ ~Handling(k, q) /\ ~About(net[k].c2s, q) /\ Ordered(net[k].c2s, q) /\ Ordered(net[k].s2c, q)
        /\ call[q].st = "indeterminate" /\ Live(k) => ServerExcuses(k, q)
        /\ call[q].st = "sent" => Live(k)
        /\ stream[k].stage \in Invocable
    BY <1>2, <1>3 DEF ServerToken
  <1>5. /\ \A p \in Calls \ {q} : call'[p] = call[p]
        /\ call'[q].st = call[q].st /\ call'[q].conn = call[q].conn /\ call'[q].runs = call[q].runs + 1
    BY <1>0, Types, CallStarts
  <1>6. \A i \in Conns \ {k} : StillCalls(i)
    BY <1>4, <1>5 DEF StillCalls
  <1>7. \A i \in Conns \ {k} : Still(i)
    BY <1>1, <1>6, HolderStill
  <1>8. \A p \in Calls : Less(net[k].c2s, net'[k].c2s, p)
    BY <1>1 DEF Less
  <1>9. /\ \A p \in ClientCalls \cap (Calls \ {q}) : ClientToken(k, p)'
        /\ \A p \in ServerCalls \cap (Calls \ {q}) : ServerToken(k, p)'
    <2> DEFINE Q == Calls \ {q}
    <2>1. /\ Q \in SUBSET Calls
          /\ \A p \in Q : /\ Less(net[k].c2s, net'[k].c2s, p) /\ Less(net[k].s2c, net'[k].s2c, p)
                          /\ p \in client'[c].running => p \in client[c].running
                          /\ p \in client'[c].unacked => p \in client[c].unacked
                          /\ call'[p] = call[p]
      BY <1>2, <1>5, <1>8
    <2> HIDE DEF Q
    <2>2. /\ \A p \in ClientCalls \cap Q : ClientToken(k, p)'
          /\ \A p \in ServerCalls \cap Q : ServerToken(k, p)'
      BY <1>0, <1>1, <2>1, HolderSteady
    <2> QED BY <2>2 DEF Q
  <1>10. ServerToken(k, q)'
    <2>1. ~About(net'[k].s2c, q) /\ Ordered(net'[k].s2c, q) /\ ~About(net'[k].c2s, q) /\ Ordered(net'[k].c2s, q)
      BY <1>0, <1>1, <1>2, <1>4 DEF Less
    <2>2. ~Replies(net'[k].c2s, q)
      BY <2>1 DEF About, Replies
    <2>3. call'[q].runs = 1
      BY <1>4, <1>5
    <2>4. (Live(k)' <=> Live(k)) /\ (ServerExcuses(k, q)' <=> ServerExcuses(k, q))
      BY DEF Live, ServerExcuses
    <2> QED BY <1>4, <1>5, <2>1, <2>2, <2>3, <2>4 DEF ServerToken
  <1>11. TokensAt(k)'
    BY <1>0, <1>9, <1>10, Numbers DEF TokensAt
  <1>12. Tokens'
    BY <1>0, <1>7, <1>11, TokensStep
  <1>13. Receipted'
    BY <1>0 DEF Receipted
  <1>14. CallsMove
    BY <1>4, <1>5 DEF CallsMove
  <1>15. LateAnswersAreForgiven'
    BY DEF TokenInv, LateAnswersAreForgiven
  <1> QED BY <1>12, <1>13, <1>14, <1>15 DEF TokenStep

\* A reply reaches the client that waits for it.
LEMMA ReplyStep ==
  ASSUME SafeInv, TokenInv, NEW c \in Clients, NEW k \in Conns, client[c].conn = k, NEW q \in ClientCalls,
         net[k].s2c # <<>>, Head(net[k].s2c).q = q, Head(net[k].s2c).t = "reply", net' = PopDown(k),
         q \in Waiting(k, ClientCalls), call' = Set(q, "result"),
         UNCHANGED <<client, stream, expired, blamed>>
  PROVE  TokenStep
  <1>0. Tokens /\ Receipted /\ q \in Calls /\ q \notin ServerCalls /\ call[q].st = "sent" /\ call[q].conn = k
    BY Numbers, SrpcAssumption, WaitingType DEF TokenInv
  <1>1. /\ \A i \in Conns \ {k} : net'[i] = net[i]
        /\ net'[k].owner = net[k].owner /\ net'[k].c2s = net[k].c2s
        /\ Leaves(net[k].s2c, net'[k].s2c, Head(net[k].s2c))
    BY Types, PopDownTokens
  <1>2. /\ About(net[k].s2c, q) /\ Replies(net[k].s2c, q)
        /\ \A p \in Calls : Less(net[k].s2c, net'[k].s2c, p)
        /\ Ordered(net[k].s2c, q) => ~About(net'[k].s2c, q)
    BY <1>1 DEF Leaves, Fewer
  <1>3. ClientToken(k, q)
    BY <1>0 DEF Tokens, TokensAt
  <1>4. /\ call[q].runs = 1 /\ ~About(net[k].c2s, q) /\ ~Queued(stream[k].queue, q) /\ q \notin stream[k].running
        /\ Ordered(net[k].c2s, q) /\ Ordered(net[k].s2c, q) /\ Once(stream[k].queue, q)
    BY <1>2, <1>3 DEF ClientToken
  <1>5. /\ \A p \in Calls \ {q} : call'[p] = call[p]
        /\ call'[q].st = "result" /\ call'[q].conn = call[q].conn /\ call'[q].runs = call[q].runs
    <2>1. "result" \in Statuses
      BY DEF Statuses
    <2> QED BY <1>0, <2>1, Types, CallChanges
  <1>6. \A i \in Conns \ {k} : StillCalls(i)
    BY <1>0, <1>5 DEF StillCalls
  <1>7. \A i \in Conns \ {k} : Still(i)
    BY <1>1, <1>6, ServerStill
  <1>8. \A p \in Calls : Less(net[k].c2s, net'[k].c2s, p)
    BY <1>1 DEF Less
  <1>9. /\ \A p \in ClientCalls \cap (Calls \ {q}) : ClientToken(k, p)'
        /\ \A p \in ServerCalls \cap (Calls \ {q}) : ServerToken(k, p)'
    <2> DEFINE Q == Calls \ {q}
    <2>1. /\ Q \in SUBSET Calls
          /\ \A p \in Q : /\ Less(net[k].c2s, net'[k].c2s, p) /\ Less(net[k].s2c, net'[k].s2c, p)
                          /\ p \in client'[c].running => p \in client[c].running
                          /\ p \in client'[c].unacked => p \in client[c].unacked
                          /\ call'[p] = call[p]
      BY <1>2, <1>5, <1>8
    <2> HIDE DEF Q
    <2>2. /\ \A p \in ClientCalls \cap Q : ClientToken(k, p)'
          /\ \A p \in ServerCalls \cap Q : ServerToken(k, p)'
      BY <1>0, <1>1, <2>1, HolderSteady
    <2> QED BY <2>2 DEF Q
  <1>10. ClientToken(k, q)'
    <2>1. ~About(net'[k].s2c, q) /\ Ordered(net'[k].s2c, q) /\ ~About(net'[k].c2s, q) /\ Ordered(net'[k].c2s, q)
      BY <1>0, <1>1, <1>2, <1>4 DEF Less
    <2> QED BY <1>4, <1>5, <2>1 DEF ClientToken
  <1>11. TokensAt(k)'
    BY <1>0, <1>9, <1>10, Numbers DEF TokensAt
  <1>12. Tokens'
    BY <1>0, <1>7, <1>11, TokensStep
  <1>13. Receipted' /\ LateAnswersAreForgiven'
    BY DEF TokenInv, Receipted, LateAnswersAreForgiven
  <1>14. CallsMove
    BY <1>0, <1>4, <1>5 DEF CallsMove
  <1> QED BY <1>12, <1>13, <1>14 DEF TokenStep

\* A client answers request q of the server, with a receipt or a reply.
LEMMA AnswerStep ==
  ASSUME SafeInv, TokenInv, NEW c \in Clients, NEW k \in Conns, client[c].conn = k, NEW q \in ServerCalls,
         NEW m \in UpFrames, m.q = q, net' = Up(net, k, m),
         \/ m.t = "reply" /\ q \in client[c].running /\ client'[c].running = client[c].running \ {q}
         \/ m.t = "ack" /\ q \in client[c].unacked /\ client'[c].running = client[c].running,
         client'[c].unacked = client[c].unacked \ {q},
         client'[c].conn = k, client'[c].late = client[c].late,
         \A d \in Clients \ {c} : client'[d] = client[d], UNCHANGED <<stream, call, expired, blamed>>
  PROVE  TokenStep
  <1>0. /\ Tokens /\ Receipted /\ q \in Calls /\ q \notin ClientCalls /\ net[k].owner = c
        /\ q \in client[c].running
    BY SocketType, Numbers, SrpcAssumption DEF TokenInv, Receipted
  <1>1. /\ \A i \in Conns \ {k} : net'[i] = net[i]
        /\ net'[k].owner = net[k].owner /\ net'[k].s2c = net[k].s2c
        /\ Joins(net[k].c2s, net'[k].c2s, q, m.t)
        /\ m.t = "reply" /\ Ordered(net[k].c2s, q) /\ ~Replies(net[k].c2s, q) => Ordered(net'[k].c2s, q)
    BY <1>0, Types, UpTokens
  <1>2. Handling(k, q) /\ ServerToken(k, q) /\ Owner(k) = c
    BY <1>0 DEF Tokens, TokensAt, Handling, Held, OnSocket, Owner
  <1>3. /\ call[q].conn = k /\ call[q].st \in {"sent", "indeterminate"} /\ call[q].runs = 1
        /\ ~About(net[k].s2c, q) /\ ~Replies(net[k].c2s, q) /\ Ordered(net[k].c2s, q) /\ Ordered(net[k].s2c, q)
        /\ q \in client[c].unacked => ~About(net[k].c2s, q)
        /\ call[q].st = "indeterminate" /\ Live(k) => ServerExcuses(k, q)
        /\ call[q].st = "sent" => Live(k)
        /\ stream[k].stage \in Invocable
    BY <1>2 DEF ServerToken
  <1>4. \A i \in Conns \ {k} : Still(i)
    <2>1. \A i \in Conns \ {k} : StillCalls(i)
      BY DEF StillCalls
    <2> QED BY <1>1, <2>1, HolderStill
  <1>5. /\ \A p \in ClientCalls \cap (Calls \ {q}) : ClientToken(k, p)'
        /\ \A p \in ServerCalls \cap (Calls \ {q}) : ServerToken(k, p)'
    <2> DEFINE Q == Calls \ {q}
    <2>1. /\ Q \in SUBSET Calls
          /\ \A p \in Q : /\ Less(net[k].c2s, net'[k].c2s, p) /\ Less(net[k].s2c, net'[k].s2c, p)
                          /\ p \in client'[c].running => p \in client[c].running
                          /\ p \in client'[c].unacked => p \in client[c].unacked
                          /\ call'[p] = call[p]
      BY <1>1 DEF Joins, Less
    <2> HIDE DEF Q
    <2>2. /\ \A p \in ClientCalls \cap Q : ClientToken(k, p)'
          /\ \A p \in ServerCalls \cap Q : ServerToken(k, p)'
      BY <1>0, <1>1, <2>1, HolderSteady
    <2> QED BY <2>2 DEF Q
  <1>6. ServerToken(k, q)'
    <2>1. (Live(k)' <=> Live(k)) /\ (ServerExcuses(k, q)' <=> ServerExcuses(k, q))
      BY DEF Live, ServerExcuses
    <2>2. Ordered(net'[k].c2s, q) /\ (m.t = "ack" => ~Replies(net'[k].c2s, q))
      BY <1>1, <1>3 DEF Joins
    <2>3. /\ Handling(k, q)' => m.t = "ack" /\ q \notin (client[Owner(k)].unacked)'
      BY <1>0, <1>1 DEF Handling, Owner
    <2> QED BY <1>1, <1>3, <2>1, <2>2, <2>3 DEF ServerToken
  <1>7. TokensAt(k)'
    BY <1>0, <1>5, <1>6, Numbers DEF TokensAt
  <1>8. Tokens'
    BY <1>0, <1>4, <1>7, TokensStep
  <1>9. Receipted'
    BY <1>0 DEF Receipted
  <1>10. CallsMove /\ LateAnswersAreForgiven'
    BY DEF TokenInv, CallsMove, LateAnswersAreForgiven
  <1> QED BY <1>8, <1>9, <1>10 DEF TokenStep

\* A client writes a request.
LEMMA ClientSendStep ==
  ASSUME SafeInv, TokenInv, NEW c \in Clients, NEW k \in Conns, client[c].conn = k, NEW q \in ClientCalls,
         call[q].st = "new", net' = Up(net, k, Msg("request", q)),
         call' = [call EXCEPT ![q] = [call[q] EXCEPT !.st = "sent", !.conn = k]],
         UNCHANGED <<client, stream, expired, blamed>>
  PROVE  TokenStep
  <1> DEFINE m == Msg("request", q)
  <1>0. /\ Tokens /\ Receipted /\ q \in Calls /\ q \notin ServerCalls /\ net[k].owner = c /\ k # 0
        /\ Counted(q) /\ m \in UpFrames /\ m.q = q /\ m.t = "request"
    BY SocketType, Numbers, SrpcAssumption, FrameType DEF TokenInv
  <1>1. net' = Up(net, k, m)
    OBVIOUS
  <1> HIDE DEF m
  <1>2. /\ \A i \in Conns \ {k} : net'[i] = net[i]
        /\ net'[k].owner = net[k].owner /\ net'[k].s2c = net[k].s2c
        /\ Joins(net[k].c2s, net'[k].c2s, q, m.t)
    BY <1>0, <1>1, Types, UpTokens
  <1>3. /\ \A p \in Calls \ {q} : call'[p] = call[p]
        /\ call'[q].st = "sent" /\ call'[q].conn = k /\ call'[q].runs = call[q].runs
    BY <1>0, Types, CallIsSent
  <1>4. ClientToken(k, q) /\ call[q].runs = 0
    BY <1>0 DEF Tokens, TokensAt, Counted
  <1>5. /\ ~About(net[k].c2s, q) /\ ~About(net[k].s2c, q) /\ ~Queued(stream[k].queue, q)
        /\ q \notin stream[k].running /\ Once(stream[k].queue, q)
        /\ Ordered(net[k].c2s, q) /\ Ordered(net[k].s2c, q)
    BY <1>4 DEF ClientToken
  <1>6. \A i \in Conns \ {k} : Still(i)
    <2>1. \A i \in Conns \ {k} : StillCalls(i)
      BY <1>3 DEF StillCalls
    <2> QED BY <1>2, <2>1, ServerStill
  <1>7. /\ \A p \in ClientCalls \cap (Calls \ {q}) : ClientToken(k, p)'
        /\ \A p \in ServerCalls \cap (Calls \ {q}) : ServerToken(k, p)'
    <2> DEFINE Q == Calls \ {q}
    <2>1. /\ Q \in SUBSET Calls
          /\ \A p \in Q : /\ Less(net[k].c2s, net'[k].c2s, p) /\ Less(net[k].s2c, net'[k].s2c, p)
                          /\ call'[p] = call[p]
      BY <1>2, <1>3 DEF Joins, Less
    <2> HIDE DEF Q
    <2>2. /\ \A p \in ClientCalls \cap Q : ClientToken(k, p)'
          /\ \A p \in ServerCalls \cap Q : ServerToken(k, p)'
      BY <1>0, <1>2, <2>1, HolderSteady
    <2> QED BY <2>2 DEF Q
  <1>8. ClientToken(k, q)'
    <2>1. Held(k)'
      BY <1>0, <1>2 DEF Held, OnSocket, Owner
    <2>2. Ordered(net'[k].c2s, q)
      BY <1>2, <1>5 DEF Joins
    <2> QED BY <1>2, <1>3, <1>4, <1>5, <2>1, <2>2 DEF ClientToken
  <1>9. TokensAt(k)'
    BY <1>0, <1>7, <1>8, Numbers DEF TokensAt
  <1>10. Tokens'
    BY <1>0, <1>6, <1>9, TokensStep
  <1>11. Receipted' /\ LateAnswersAreForgiven'
    BY DEF TokenInv, Receipted, LateAnswersAreForgiven
  <1>12. CallsMove
    BY <1>0, <1>3 DEF CallsMove
  <1> QED BY <1>10, <1>11, <1>12 DEF TokenStep

\* A call is refused before it is sent.
LEMMA RefuseStep ==
  ASSUME SafeInv, TokenInv, NEW q \in Calls, call[q].st = "new", call' = Set(q, "refused"),
         UNCHANGED <<client, net, stream, expired, blamed>>
  PROVE  TokenStep
  <1>1. /\ \A p \in Calls \ {q} : call'[p] = call[p]
        /\ call'[q].st = "refused" /\ call'[q].conn = call[q].conn /\ call'[q].runs = call[q].runs
    <2>1. "refused" \in Statuses
      BY DEF Statuses
    <2> QED BY <2>1, Types, CallChanges
  <1>2. \A i \in Conns : StillCalls(i)
    BY <1>1 DEF StillCalls
  <1>3. \A i \in Conns : Still(i)
    BY <1>2, ServerStill
  <1>4. Tokens'
    BY <1>3, TokensStep DEF TokenInv
  <1>5. Receipted' /\ LateAnswersAreForgiven'
    BY DEF TokenInv, Receipted, LateAnswersAreForgiven
  <1>6. CallsMove
    BY <1>1 DEF CallsMove
  <1> QED BY <1>4, <1>5, <1>6 DEF TokenStep

\* The timer of a client's request leaves a tombstone.
LEMMA ClientTimeoutStep ==
  ASSUME SafeInv, TokenInv, NEW c \in Clients, NEW k \in Conns, client[c].conn = k, NEW q \in ClientCalls,
         q \in Waiting(k, ClientCalls), call' = Set(q, "indeterminate"),
         client'[c].conn = k, client'[c].running = client[c].running, client'[c].unacked = client[c].unacked,
         client'[c].late = client[c].late \cup {q}, \A d \in Clients \ {c} : client'[d] = client[d],
         UNCHANGED <<net, stream, expired, blamed>>
  PROVE  TokenStep
  <1>0. Tokens /\ q \in Calls /\ call[q].st = "sent" /\ call[q].conn = k
    BY Numbers, WaitingType DEF TokenInv
  <1>1. /\ \A p \in Calls \ {q} : call'[p] = call[p]
        /\ call'[q].st = "indeterminate" /\ call'[q].conn = call[q].conn /\ call'[q].runs = call[q].runs
    <2>1. "indeterminate" \in Statuses
      BY DEF Statuses
    <2> QED BY <1>0, <2>1, Types, CallChanges
  <1>2. \A i \in Conns \ {k} : Still(i)
    <2>1. \A i \in Conns \ {k} : StillCalls(i)
      BY <1>0, <1>1 DEF StillCalls
    <2> QED BY <2>1, HolderStill
  <1>3. TokensAt(k)'
    <2>1. \A p \in Calls : Less(net[k].c2s, net'[k].c2s, p) /\ Less(net[k].s2c, net'[k].s2c, p)
      BY DEF Less
    <2>2. /\ \A p \in ClientCalls \cap Calls : ClientToken(k, p)'
          /\ \A p \in ServerCalls \cap Calls : ServerToken(k, p)'
      BY <1>0, <1>1, <2>1, HolderSteady
    <2> QED BY <2>2, Numbers DEF TokensAt
  <1>4. Tokens'
    BY <1>0, <1>2, <1>3, TokensStep
  <1>5. Receipted' /\ LateAnswersAreForgiven'
    BY DEF TokenInv, Receipted, LateAnswersAreForgiven
  <1>6. CallsMove
    BY <1>0, <1>1 DEF CallsMove
  <1> QED BY <1>4, <1>5, <1>6 DEF TokenStep

\* The network after a client dropped connection k.
LEMMA ClearedDown ==
  ASSUME NEW n \in [Conns -> Links], NEW k \in Conns, net' = [n EXCEPT ![k].s2c = <<>>]
  PROVE  /\ net' \in [Conns -> Links] /\ net'[k].s2c = <<>>
         /\ \A i \in Conns : /\ net'[i].owner = n[i].owner /\ net'[i].health = n[i].health
                             /\ net'[i].c2s = n[i].c2s
                             /\ i # k => net'[i] = n[i]
  <1>1. /\ [n EXCEPT ![k].s2c = <<>>] \in [Conns -> Links]
        /\ \A i \in Conns : /\ i # k => [n EXCEPT ![k].s2c = <<>>][i] = n[i]
                            /\ [n EXCEPT ![k].s2c = <<>>][i].owner = n[i].owner
                            /\ [n EXCEPT ![k].s2c = <<>>][i].health = n[i].health
                            /\ [n EXCEPT ![k].s2c = <<>>][i].c2s = n[i].c2s
        /\ [n EXCEPT ![k].s2c = <<>>][k].s2c = <<>>
    BY ClearType
  <1> QED BY Zenon, <1>1

\* disconnect() drops the connection, or only stops the timer.
LEMMA DisconnectStep ==
  ASSUME SafeInv, TokenInv, NEW c \in Clients, NEW k, client[c].conn = k, disconnect(c)
  PROVE  TokenStep
  <1> DEFINE R == IF k = 0 THEN client[c].phase ELSE "closed"
             L == IF k = 0 THEN client[c].late ELSE client[c].late \cup Waiting(k, ClientCalls)
             gone == [client[c] EXCEPT !.conn = 0, !.running = {}, !.unacked = {}, !.enable = FALSE, !.timer = FALSE,
                                       !.phase = R, !.late = L]
             n == Up(net, k, Close("disconnect"))
  <1>0. /\ client[c] \in Peers /\ client[c].phase \in Phases /\ client[c].late \in SUBSET ClientCalls
        /\ k # 0 => k \in Conns
        /\ k = 0 => client[c].running = {} /\ client[c].unacked = {}
    BY Types, SocketType DEF Peers, IdleClients
  <1>1. /\ client' = [client EXCEPT ![c] = gone]
        /\ net' = IF k = 0 THEN net ELSE [n EXCEPT ![k].s2c = <<>>]
        /\ call' = IF k = 0 THEN call ELSE Abandon(Waiting(k, ClientCalls))
        /\ UNCHANGED <<stream, reg, expired, blamed>>
    BY DEF disconnect
  <1>2. R \in Phases /\ L \in SUBSET ClientCalls /\ 0 \in 0..MaxConns /\ (k = 0 => L = client[c].late)
    BY <1>0, WaitingType, Numbers DEF Phases
  <1> HIDE DEF R, L
  <1>3. /\ gone \in Peers /\ gone.conn = 0 /\ gone.running = {} /\ gone.unacked = {} /\ gone.late = L
    BY <1>0, <1>2 DEF Peers
  <1> HIDE DEF gone
  <1>4. client'[c] = gone /\ \A d \in Clients \ {c} : client'[d] = client[d]
    BY <1>1, <1>3, Types, PeerStep
  <1>5. CASE k = 0
    <2>1. net' = net /\ call' = call /\ k \notin Conns
      BY <1>1, <1>5, Numbers
    <2>2. client'[c].running = client[c].running /\ client'[c].unacked = client[c].unacked /\ client'[c].late = client[c].late
      BY <1>0, <1>2, <1>3, <1>4, <1>5
    <2> QED BY <1>1, <1>3, <1>4, <1>5, <2>1, <2>2, HolderQuiet
  <1>6. CASE k # 0
    <2>0. k \in Conns
      BY <1>0, <1>6
    <2>1. Goodbye(n, k)
      BY <2>0, Types, GoodbyeCases DEF Causes
    <2>2. n \in [Conns -> Links]
      BY <2>1 DEF Goodbye
    <2> HIDE DEF n
    <2>4. net' = [n EXCEPT ![k].s2c = <<>>]
      BY <1>1, <1>6
    <2>5. /\ net' \in [Conns -> Links] /\ net'[k].s2c = <<>>
          /\ \A i \in Conns : /\ net'[i].owner = n[i].owner /\ net'[i].health = n[i].health
                              /\ net'[i].c2s = n[i].c2s
                              /\ i # k => net'[i] = n[i]
      BY <2>0, <2>2, <2>4, ClearedDown
    <2>6. SocketDropped(k)
      BY <2>1, <2>5 DEF Goodbye, SocketDropped
    <2>7. call' = Abandon(Waiting(k, ClientCalls))
      BY <1>1, <1>6
    <2>8. Left(c, k)
      BY <1>1, <1>3, <1>4, <2>6, <2>7 DEF Left
    <2>9. blamed' \ {0} \subseteq expired
      BY <1>1 DEF TokenInv, LateAnswersAreForgiven
    <2> QED BY <2>0, <2>8, <2>9, LeftStep
  <1> QED BY <1>5, <1>6

\* handleMessage().
LEMMA ClientReceivesStep ==
  ASSUME SafeInv, TokenInv, NEW c \in Clients, NEW k, client[c].conn = k, ClientReceives(c)
  PROVE  TokenStep
  <1> DEFINE h == Head(net[k].s2c)
  <1>0. k \in Conns /\ net[k].s2c # <<>> /\ blamed \ {0} \subseteq expired
    BY SocketType DEF ClientReceives, Writable, TokenInv, LateAnswersAreForgiven
  <1>1. PICK m \in DownFrames :
          /\ m = h
          /\ \/ m.t = "close" /\ handleClose(c, m.cause)
             \/ m.t = "hello" /\ handleInitialHandshake(c, k)
             \/ m.t = "activated" /\ completeConnection(c, k)
             \/ m.t = "request" /\ admitServerRequest(c, k, m.q)
             \/ m.t = "reply" /\ handleReply(c, k, m.q)
             \/ m.t = "ack" /\ handleRequestAck(c, k, m.q)
    <2>1. h \in DownFrames
      BY <1>0, Types DEF Links
    <2>2. \/ h.t = "close" /\ handleClose(c, h.cause)
          \/ h.t = "hello" /\ handleInitialHandshake(c, k)
          \/ h.t = "activated" /\ completeConnection(c, k)
          \/ h.t = "request" /\ admitServerRequest(c, k, h.q)
          \/ h.t = "reply" /\ handleReply(c, k, h.q)
          \/ h.t = "ack" /\ handleRequestAck(c, k, h.q)
      BY DEF ClientReceives
    <2> QED BY <2>1, <2>2
  <1>2. /\ m.t = "request" => m.q \in ServerCalls
        /\ m.t \in {"reply", "ack"} => m.q \in ClientCalls
    BY <1>1, FrameFields
  <1>3. net' = PopDown(k) => /\ \A i \in Conns \ {k} : net'[i] = net[i]
                             /\ net'[k].owner = net[k].owner
                             /\ Fewer(net[k].c2s, net'[k].c2s) /\ Fewer(net[k].s2c, net'[k].s2c)
    <2> SUFFICES ASSUME net' = PopDown(k)
                 PROVE  /\ \A i \in Conns \ {k} : net'[i] = net[i]
                        /\ net'[k].owner = net[k].owner
                        /\ Fewer(net[k].c2s, net'[k].c2s) /\ Fewer(net[k].s2c, net'[k].s2c)
      OBVIOUS
    <2>1. /\ \A i \in Conns \ {k} : net'[i] = net[i]
          /\ net'[k].owner = net[k].owner /\ net'[k].c2s = net[k].c2s
          /\ Leaves(net[k].s2c, net'[k].s2c, Head(net[k].s2c))
      BY <1>0, Types, PopDownTokens
    <2>2. Fewer(net[k].s2c, net'[k].s2c)
      BY <2>1 DEF Leaves
    <2>3. Fewer(net[k].c2s, net'[k].c2s)
      BY <2>1 DEF Fewer, Less
    <2> QED BY <2>1, <2>2, <2>3
  <1>4. m.t \in {"reply", "ack"} /\ ~ClientKnows(c, k, m.q) => m.q \in expired
    <2>1. About(net[k].s2c, h.q)
      <3> DEFINE x == net[k].s2c
      <3>1. x \in Seq(DownFrames) /\ x # <<>>
        BY <1>0, Types DEF Links
      <3> HIDE DEF x
      <3>2. About(x, Head(x).q)
        BY <3>1, TailFrame
      <3> QED BY <3>2 DEF x
    <2> QED BY <1>0, <1>1, <1>2, <2>1, ClientIsAnswered
  <1>5. CASE m.t = "close" /\ handleClose(c, m.cause)
    <2> DEFINE b == m.cause = "conflict"
    <2>1. /\ revokeGeneration(c, m.cause, b, net) /\ blamed' = blamed /\ b \in BOOLEAN
      BY <1>5 DEF handleClose
    <2>2. Goodbye(net, k)
      BY <1>0, GoodbyeCases, Types
    <2> HIDE DEF b
    <2>3. Left(c, k)
      BY <1>0, <2>1, <2>2, Types, RevokeLeaves
    <2> QED BY <1>0, <2>1, <2>3, LeftStep
  <1>6. CASE \/ m.t = "hello" /\ handleInitialHandshake(c, k)
             \/ m.t = "activated" /\ completeConnection(c, k)
    <2> DEFINE p == IF m.t = "hello" THEN "activating" ELSE "connected"
    <2>1. /\ p \in Phases
          /\ \/ client' = [client EXCEPT ![c].phase = p]
             \/ p = "connected" /\ client' = [client EXCEPT ![c] = [client[c] EXCEPT !.phase = "connected", !.established = TRUE]]
          /\ net' = PopDown(k) /\ UNCHANGED <<stream, reg, call, expired, blamed>>
      BY <1>6 DEF handleInitialHandshake, completeConnection, Phases
    <2> HIDE DEF p
    <2>2. /\ \A d \in Clients \ {c} : client'[d] = client[d]
          /\ client'[c].conn = client[c].conn
          /\ client'[c].running = client[c].running /\ client'[c].unacked = client[c].unacked
          /\ client'[c].late = client[c].late
      BY <2>1, Types, PhaseEffect
    <2> QED BY <1>0, <1>3, <2>1, <2>2, HolderQuiet
  <1>7. CASE m.t = "request" /\ admitServerRequest(c, k, m.q)
    <2>1. CASE Cardinality(client[c].running) >= MaxInFlight
      <3>1. closeGenerationWithError(c, 0)
        BY <1>7, <2>1, ZenonT(60) DEF admitServerRequest
      <3> QED BY <1>0, <3>1, CloseStep
    <2>2. CASE ~(Cardinality(client[c].running) >= MaxInFlight)
      <3> DEFINE x == client[c].running \cup {m.q}
                 y == IF Acks THEN client[c].unacked \cup {m.q} ELSE client[c].unacked
      <3>1. /\ client' = [client EXCEPT ![c] = [client[c] EXCEPT !.running = x, !.unacked = y]]
            /\ call' = [call EXCEPT ![m.q].runs = @ + 1]
            /\ net' = PopDown(k) /\ UNCHANGED <<stream, reg, expired, blamed>>
        BY <1>7, <2>2 DEF admitServerRequest
      <3>2. x \in SUBSET ServerCalls /\ y \in SUBSET ServerCalls /\ y \subseteq client[c].unacked \cup {m.q}
        BY <1>2, <1>7, Types DEF Peers
      <3> HIDE DEF y
      <3>3. /\ \A d \in Clients \ {c} : client'[d] = client[d]
            /\ client'[c].running = x /\ client'[c].unacked = y /\ client'[c].late = client[c].late
        BY <3>1, <3>2, Types, HandlersEffect, ZenonT(60)
      <3>4. client'[c].conn = k
        <4>1. ClientsAlike(Clients)
          BY <3>1, <3>2, Types, HandlersEffect
        <4> QED BY <4>1 DEF ClientsAlike
      <3> QED BY <1>0, <1>1, <1>2, <1>7, <3>1, <3>2, <3>3, <3>4, AdmitStep
    <2> QED BY <2>1, <2>2
  <1>8. CASE m.t = "reply" /\ handleReply(c, k, m.q)
    <2>1. CASE ClientKnows(c, k, m.q)
      <3>1. /\ net' = PopDown(k) /\ UNCHANGED <<client, stream, reg, expired, blamed>>
            /\ call' = IF m.q \in Waiting(k, ClientCalls) THEN Set(m.q, "result") ELSE call
        BY <1>8, <2>1 DEF handleReply
      <3>2. CASE m.q \in Waiting(k, ClientCalls)
        <4>1. call' = Set(m.q, "result")
          BY <3>1, <3>2
        <4> QED BY <1>0, <1>1, <1>2, <1>8, <3>1, <3>2, <4>1, ReplyStep
      <3>3. CASE m.q \notin Waiting(k, ClientCalls)
        <4>1. call' = call
          BY <3>1, <3>3
        <4> QED BY <1>0, <1>3, <3>1, <4>1, HolderQuiet
      <3> QED BY <3>2, <3>3
    <2>2. CASE ~ClientKnows(c, k, m.q)
      <3>1. closeGenerationWithError(c, m.q)
        BY <1>8, <2>2 DEF handleReply
      <3> QED BY <1>0, <1>4, <1>8, <2>2, <3>1, CloseStep
    <2> QED BY <2>1, <2>2
  <1>9. CASE m.t = "ack" /\ handleRequestAck(c, k, m.q)
    <2>1. CASE ClientKnows(c, k, m.q)
      <3>1. net' = PopDown(k) /\ UNCHANGED <<client, stream, reg, call, expired, blamed>>
        BY <1>9, <2>1 DEF handleRequestAck
      <3> QED BY <1>0, <1>3, <3>1, HolderQuiet
    <2>2. CASE ~ClientKnows(c, k, m.q)
      <3>1. closeGenerationWithError(c, m.q)
        BY <1>9, <2>2 DEF handleRequestAck
      <3> QED BY <1>0, <1>4, <1>9, <2>2, <3>1, CloseStep
    <2> QED BY <2>1, <2>2
  <1> QED BY <1>1, <1>5, <1>6, <1>7, <1>8, <1>9

\* The steps of one client.
LEMMA ClientTokenStep ==
  ASSUME SafeInv, TokenInv, NEW c \in Clients, ClientNext(c)
  PROVE  TokenStep
  <1>0. client[c] \in Peers /\ blamed \ {0} \subseteq expired
    BY Types DEF TokenInv, LateAnswersAreForgiven
  <1>k. PICK k : client[c].conn = k
    OBVIOUS
  <1>same. net' = net /\ k \in Conns => /\ net'[k].owner = net[k].owner
                                        /\ Fewer(net[k].c2s, net'[k].c2s) /\ Fewer(net[k].s2c, net'[k].s2c)
    BY DEF Fewer, Less
  <1>1. ASSUME NEW b \in BOOLEAN, connect(c, b) PROVE TokenStep
    <2>1. StartGeneration(c, b)
      BY <1>1 DEF connect
    <2> QED BY <1>k, <2>1, StartTokens
  <1>2. CASE queueReconnectFires(c)
    <2> DEFINE b == client[c].established
    <2>1. StartGeneration(c, b) /\ b \in BOOLEAN
      BY <1>0, <1>2 DEF queueReconnectFires, Peers
    <2> HIDE DEF b
    <2> QED BY <1>k, <2>1, StartTokens
  <1>3. CASE disconnect(c)
    BY <1>k, <1>3, DisconnectStep
  <1>4. CASE ConnectTimeout(c)
    <2> DEFINE n == Up(net, k, Close("disconnect"))
    <2>1. k \in Conns /\ revokeGeneration(c, "timeout", FALSE, n) /\ blamed' = blamed
      BY <1>k, <1>4, SocketType DEF ConnectTimeout
    <2>2. Goodbye(n, k)
      BY <2>1, GoodbyeCases, Types DEF Causes
    <2>3. n \in [Conns -> Links]
      BY <2>2 DEF Goodbye
    <2> HIDE DEF n
    <2>4. Left(c, k)
      BY <1>k, <2>1, <2>2, <2>3, RevokeLeaves
    <2> QED BY <1>0, <2>1, <2>4, LeftStep
  <1>5. CASE ClientLosesSocket(c) \/ PongTimeout(c)
    <2>1. PICK why \in {"disconnect", "timeout"} : revokeGeneration(c, why, FALSE, net)
      BY <1>5 DEF ClientLosesSocket, PongTimeout
    <2>2. k \in Conns /\ blamed' = blamed
      BY <1>k, <1>5, SocketType DEF ClientLosesSocket, PongTimeout
    <2>3. Goodbye(net, k)
      BY <2>2, GoodbyeCases, Types
    <2>4. Left(c, k)
      BY <1>k, <2>1, <2>2, <2>3, Types, RevokeLeaves
    <2> QED BY <1>0, <2>2, <2>4, LeftStep
  <1>6. CASE SocketOpens(c)
    <2>1. /\ client' = [client EXCEPT ![c].phase = "open"]
          /\ UNCHANGED <<net, stream, call, expired, blamed>> /\ "open" \in Phases
      BY <1>6 DEF SocketOpens, Phases
    <2>2. /\ \A d \in Clients \ {c} : client'[d] = client[d]
          /\ client'[c].conn = client[c].conn
          /\ client'[c].running = client[c].running /\ client'[c].unacked = client[c].unacked
          /\ client'[c].late = client[c].late
      BY <2>1, Types, PhaseEffect
    <2> QED BY <1>k, <1>same, <2>1, <2>2, HolderQuiet
  <1>7. CASE ClientReceives(c)
    BY <1>k, <1>7, ClientReceivesStep
  <1>8. CASE ClientOverflows(c)
    <2>1. k \in Conns /\ closeGenerationWithError(c, 0)
      BY <1>k, <1>8, SocketType DEF ClientOverflows, Writable
    <2> QED BY <1>k, <2>1, CloseStep
  <1>9. ASSUME NEW q \in ServerCalls, handleServerRequestEnds(c, q) PROVE TokenStep
    <2> DEFINE x == client[c].running \ {q}
               y == client[c].unacked \ {q}
               m == Msg("reply", q)
    <2>1. /\ client' = [client EXCEPT ![c] = [client[c] EXCEPT !.running = x, !.unacked = y]]
          /\ net' = Up(net, k, m) /\ q \in client[c].running /\ UNCHANGED <<stream, call, expired, blamed>>
      BY <1>k, <1>9 DEF handleServerRequestEnds
    <2>2. x \in SUBSET ServerCalls /\ y \in SUBSET ServerCalls /\ k \in Conns /\ m \in UpFrames
      BY <1>0, <1>k, <2>1, SocketType, FrameType DEF Peers, SafeInv, IdleClients
    <2>3. m.q = q /\ m.t = "reply"
      BY DEF Msg
    <2> HIDE DEF x, y, m
    <2>4. /\ ClientsAlike(Clients) /\ \A d \in Clients \ {c} : client'[d] = client[d]
          /\ client'[c].running = x /\ client'[c].unacked = y /\ client'[c].late = client[c].late
      BY <2>1, <2>2, Types, HandlersEffect, ZenonT(60)
    <2>5. client'[c].conn = k
      BY <1>k, <2>4 DEF ClientsAlike
    <2> QED BY <1>k, <2>1, <2>2, <2>3, <2>4, <2>5, AnswerStep DEF x, y
  <1>10. ASSUME NEW q \in ServerCalls, acknowledgeServerRequest(c, q) PROVE TokenStep
    <2> DEFINE y == client[c].unacked \ {q}
               m == Msg("ack", q)
    <2>1. /\ client' = [client EXCEPT ![c].unacked = y]
          /\ net' = Up(net, k, m) /\ q \in client[c].unacked /\ UNCHANGED <<stream, call, expired, blamed>>
      BY <1>k, <1>10 DEF acknowledgeServerRequest
    <2>2. y \in SUBSET ServerCalls /\ k \in Conns /\ m \in UpFrames
      BY <1>0, <1>k, <2>1, SocketType, FrameType DEF Peers, SafeInv, IdleClients
    <2>3. m.q = q /\ m.t = "ack"
      BY DEF Msg
    <2> HIDE DEF y, m
    <2>4. /\ ClientsAlike(Clients) /\ \A d \in Clients \ {c} : client'[d] = client[d]
          /\ client'[c].running = client[c].running /\ client'[c].unacked = y
          /\ client'[c].late = client[c].late
      BY <2>1, <2>2, Types, UnackedEffect
    <2>5. client'[c].conn = k
      BY <1>k, <2>4 DEF ClientsAlike
    <2> QED BY <1>k, <2>1, <2>2, <2>3, <2>4, <2>5, AnswerStep DEF y
  <1>11. ASSUME NEW q \in ClientCalls, ClientInvokes(c, q) PROVE TokenStep
    <2>0. q \in Calls /\ call[q].st = "new"
      BY <1>11, Numbers DEF ClientInvokes, Fresh
    <2>1. CASE call' = Set(q, "refused") /\ UNCHANGED <<client, net, stream, reg, faults, expired, blamed>>
      BY <2>0, <2>1, RefuseStep
    <2>2. CASE /\ Writable(c) /\ call' = [call EXCEPT ![q] = [call[q] EXCEPT !.st = "sent", !.conn = client[c].conn]]
               /\ net' = Up(net, client[c].conn, Msg("request", q))
               /\ UNCHANGED <<client, stream, reg, faults, expired, blamed>>
      <3>1. k \in Conns
        BY <1>k, <2>2, SocketType DEF Writable
      <3>2. /\ call' = [call EXCEPT ![q] = [call[q] EXCEPT !.st = "sent", !.conn = k]]
            /\ net' = Up(net, k, Msg("request", q))
        BY <1>k, <2>2
      <3> QED BY <1>k, <2>0, <2>2, <3>1, <3>2, ClientSendStep
    <2> QED BY <1>11, <2>1, <2>2 DEF ClientInvokes
  <1>12. ASSUME NEW q \in ClientCalls, ClientCallTimesOut(c, q) PROVE TokenStep
    <2> DEFINE x == client[c].late \cup {q}
    <2>0. x \in SUBSET ClientCalls /\ k \in Conns /\ q \in Waiting(k, ClientCalls)
      BY <1>0, <1>k, <1>12, SocketType DEF ClientCallTimesOut, Peers
    <2>1. /\ call' = Set(q, "indeterminate") /\ client' = [client EXCEPT ![c].late = x]
          /\ UNCHANGED <<net, stream, expired, blamed>>
      BY <1>12 DEF ClientCallTimesOut
    <2> HIDE DEF x
    <2>2. /\ ClientsAlike(Clients) /\ \A d \in Clients \ {c} : client'[d] = client[d]
          /\ client'[c].running = client[c].running /\ client'[c].unacked = client[c].unacked
          /\ client'[c].late = x
      BY <2>0, <2>1, Types, LateEffect
    <2>3. client'[c].conn = k
      BY <1>k, <2>2 DEF ClientsAlike
    <2> QED BY <1>k, <2>0, <2>1, <2>2, <2>3, ClientTimeoutStep DEF x
  <1>13. ASSUME NEW q \in ClientCalls, ClientTombstoneExpires(c, q) PROVE TokenStep
    <2> DEFINE x == client[c].late \ {q}
    <2>0. x \in SUBSET ClientCalls
      BY <1>0 DEF Peers
    <2>1. /\ client' = [client EXCEPT ![c].late = x] /\ expired' = expired \cup {q}
          /\ UNCHANGED <<net, stream, call, blamed>>
      BY <1>13 DEF ClientTombstoneExpires
    <2> HIDE DEF x
    <2>2. /\ ClientsAlike(Clients) /\ \A d \in Clients \ {c} : client'[d] = client[d]
          /\ client'[c].running = client[c].running /\ client'[c].unacked = client[c].unacked
          /\ client'[c].late = x
      BY <2>0, <2>1, Types, LateEffect
    <2>3. client'[c].conn = k
      BY <1>k, <2>2 DEF ClientsAlike
    <2>4. client[c].late \cup expired \subseteq client'[c].late \cup expired' /\ expired \subseteq expired'
      BY <2>1, <2>2 DEF x
    <2> QED BY <1>k, <1>same, <2>1, <2>2, <2>3, <2>4, HolderQuiet
  <1> QED BY <1>1, <1>2, <1>3, <1>4, <1>5, <1>6, <1>7, <1>8, <1>9, <1>10, <1>11, <1>12, <1>13 DEF ClientNext

-----------------------------------------------------------------------------
(***************************************************************************)
(* The same for the steps of the server.                                   *)
(***************************************************************************)

\* How a step may change the stage of stream k.
StageKept(k) ==
  /\ stream'[k].stage = "none" => stream[k].stage = "none"
  /\ stream[k].stage \in Invocable => stream'[k].stage \in Invocable /\ (Live(k)' => Live(k))

\* A server request that waits on stream k goes on waiting, or is given up and
\* leaves a tombstone if the stream lives on.
WaitKept(k, q) ==
  \/ /\ call'[q].st = call[q].st
     /\ q \in ServerCalls /\ call[q].st = "sent" /\ call[q].conn = k => Live(k)'
  \/ /\ q \in ServerCalls /\ call[q].st = "sent" /\ call'[q].st = "indeterminate" /\ call[q].conn = k
     /\ Live(k)' => q \in stream'[k].late

\* A step of the server about stream k, for the requests Q that it gives no new
\* place.
LEMMA ServerSteady ==
  ASSUME Tokens, client' = client, NEW k \in Conns, net'[k].owner = net[k].owner, NEW Q \in SUBSET Calls,
         \A q \in Q : Less(net[k].c2s, net'[k].c2s, q) /\ Less(net[k].s2c, net'[k].s2c, q),
         \A q \in Q : /\ Queued(stream'[k].queue, q) => Queued(stream[k].queue, q)
                      /\ Once(stream[k].queue, q) => Once(stream'[k].queue, q)
                      /\ q \in stream'[k].running => q \in stream[k].running,
         StageKept(k), expired \subseteq expired',
         stream[k].late \cup expired \subseteq stream'[k].late \cup expired',
         \A q \in Q : /\ call'[q].conn = call[q].conn /\ call'[q].runs = call[q].runs
                      /\ WaitKept(k, q) \/ (q \in ServerCalls /\ call[q].conn # k)
  PROVE  /\ \A q \in ClientCalls \cap Q : ClientToken(k, q)'
         /\ \A q \in ServerCalls \cap Q : ServerToken(k, q)'
  <1>1. /\ Held(k)' <=> Held(k)
        /\ \A q : ClientExcuses(k, q) => ClientExcuses(k, q)'
        /\ \A q : Handling(k, q)' <=> Handling(k, q)
        /\ (client[Owner(k)].unacked)' = client[Owner(k)].unacked
    BY DEF Held, OnSocket, Owner, ClientExcuses, Handling
  <1>2. ASSUME NEW q \in ClientCalls \cap Q PROVE ClientToken(k, q)'
    <2>1. q \notin ServerCalls
      BY SrpcAssumption
    <2>2. call'[q].st = call[q].st /\ call'[q].conn = call[q].conn /\ call'[q].runs = call[q].runs
      BY <2>1 DEF WaitKept
    <2>3. ClientToken(k, q)
      BY DEF Tokens, TokensAt
    <2>4. SteadyClient(k, q)
      BY <1>1, <2>2 DEF SteadyClient, StageKept
    <2> QED BY <2>3, <2>4, ClientKept
  <1>3. ASSUME NEW q \in ServerCalls \cap Q PROVE ServerToken(k, q)'
    <2>1. ServerToken(k, q)
      BY DEF Tokens, TokensAt
    <2>2. call[q].conn = k => stream[k].stage \in Invocable
      BY <2>1 DEF ServerToken
    <2>3. /\ ServerExcuses(k, q) => ServerExcuses(k, q)'
          /\ q \in stream'[k].late => ServerExcuses(k, q)'
      BY DEF ServerExcuses
    <2>4. SteadyServer(k, q)
      BY <1>1, <2>2, <2>3 DEF SteadyServer, StageKept, WaitKept
    <2> QED BY <2>1, <2>4, ServerKept
  <1> QED BY <1>2, <1>3

\* Outcomes with the same fields are the same.
LEMMA SameOutcome ==
  ASSUME NEW x \in Outcomes, NEW y \in Outcomes, x.st = y.st, x.conn = y.conn, x.runs = y.runs
  PROVE  x = y
  BY DEF Outcomes

\* A step of the server about stream k that gives no request a new place.
LEMMA ServerQuiet ==
  ASSUME SafeInv, TokenInv, client' = client, NEW k \in Conns,
         \A i \in Conns \ {k} : net'[i] = net[i] /\ stream'[i] = stream[i],
         net'[k].owner = net[k].owner,
         Fewer(net[k].c2s, net'[k].c2s), Fewer(net[k].s2c, net'[k].s2c),
         stream'[k].queue = stream[k].queue \/ stream'[k].queue = <<>>,
         stream'[k].running \subseteq stream[k].running,
         StageKept(k), expired \subseteq expired',
         stream[k].late \cup expired \subseteq stream'[k].late \cup expired',
         blamed' \ {0} \subseteq expired', call' \in [Calls -> Outcomes],
         \A q \in Calls : call'[q].conn = call[q].conn /\ call'[q].runs = call[q].runs /\ WaitKept(k, q)
  PROVE  TokenStep
  <1>0. Tokens /\ Receipted
    BY DEF TokenInv
  <1>1. \A i \in Conns \ {k} : Still(i)
    <2>1. ASSUME NEW i \in Conns \ {k} PROVE StillCalls(i)
      <3> SUFFICES ASSUME NEW q \in Calls
                   PROVE  /\ call[q].conn = i /\ call[q].st \in {"sent", "indeterminate"} => call'[q] = call[q]
                          /\ call'[q].st = "sent" /\ call'[q].conn = i => call[q].st = "sent"
                          /\ call'[q].conn = i => call[q].conn = i
        BY DEF StillCalls
      <3>1. call[q] \in Outcomes /\ call'[q] \in Outcomes
        BY Types
      <3>2. call[q].conn = i => call'[q].st = call[q].st
        BY DEF WaitKept
      <3>3. call[q].conn = i => call'[q] = call[q]
        BY <3>1, <3>2, SameOutcome
      <3> QED BY <3>3 DEF WaitKept
    <2> QED BY <2>1, ServerStill
  <1>2. \A q \in Calls : /\ Queued(stream'[k].queue, q) => Queued(stream[k].queue, q)
                         /\ Once(stream[k].queue, q) => Once(stream'[k].queue, q)
                         /\ q \in stream'[k].running => q \in stream[k].running
    BY DEF Queued, Once
  <1>3. \A q \in Calls : Less(net[k].c2s, net'[k].c2s, q) /\ Less(net[k].s2c, net'[k].s2c, q)
    BY DEF Fewer
  <1>4. /\ \A q \in ClientCalls \cap Calls : ClientToken(k, q)'
        /\ \A q \in ServerCalls \cap Calls : ServerToken(k, q)'
    BY <1>0, <1>2, <1>3, ServerSteady
  <1>5. TokensAt(k)'
    BY <1>4, Numbers DEF TokensAt
  <1>6. Tokens'
    BY <1>0, <1>1, <1>5, TokensStep
  <1>7. CallsMove
    BY DEF CallsMove, WaitKept
  <1>8. Receipted' /\ LateAnswersAreForgiven'
    BY <1>0 DEF Receipted, LateAnswersAreForgiven
  <1> QED BY <1>6, <1>7, <1>8 DEF TokenStep

\* A stream is given up.
LEMMA CleanupStep ==
  ASSUME SafeInv, TokenInv, NEW k \in Conns, NEW cause \in Causes, cleanupStream(k, cause, net, call),
         blamed' \ {0} \subseteq expired
  PROVE  TokenStep
  <1>0. Dispatched(net, call, k)
    BY Types, DispatchedCases
  <1>1. /\ \A i \in Conns \ {k} : stream'[i] = stream[i]
        /\ stream'[k].stage = "revoked" /\ stream'[k].queue = <<>> /\ stream'[k].running = {}
        /\ call' \in [Calls -> Outcomes] /\ UNCHANGED <<client, expired>>
    BY <1>0, Types, CleanupEffect
  <1>2. /\ \A i \in Conns : net'[i].owner = net[i].owner /\ (i # k => net'[i] = net[i])
        /\ net'[k].c2s = <<>> /\ Fewer(net[k].s2c, net'[k].s2c)
    BY <1>0, Types, CleanupEffect
  <1>3. \A q \in Calls : /\ call'[q].conn = call[q].conn /\ call'[q].runs = call[q].runs
                         /\ call'[q].st = IF q \in Waiting(k, ServerCalls) THEN "indeterminate" ELSE call[q].st
    BY <1>0, Types, CleanupEffect
  <1>4. stream'[k].late = stream[k].late
    <2>1. stream[k] \in Streams /\ stream' = [stream EXCEPT ![k] = Revoked(k)]
      BY Types DEF cleanupStream
    <2>2. Revoked(k).late = stream[k].late
      BY <2>1 DEF Revoked, Streams
    <2> QED BY <2>1, <2>2, Types
  <1>5. Fewer(net[k].c2s, net'[k].c2s)
    BY <1>2, Types, FewerFrames DEF Links
  <1>6. StageKept(k) /\ ~Live(k)'
    BY <1>1 DEF StageKept, Live, Invocable, Registered
  <1>7. \A q \in Calls : WaitKept(k, q)
    BY <1>3, <1>6, WaitingType DEF WaitKept
  <1>8. stream'[k].running \subseteq stream[k].running
    BY <1>1
  <1> QED BY <1>1, <1>2, <1>3, <1>4, <1>5, <1>6, <1>7, <1>8, ServerQuiet

\* closeStreamWithError().
LEMMA StreamErrorStep ==
  ASSUME SafeInv, TokenInv, NEW k \in Conns, NEW q, q = 0 \/ q \in expired, closeStreamWithError(k, q)
  PROVE  TokenStep
  <1>1. cleanupStream(k, "badArg", net, call) /\ "badArg" \in Causes /\ blamed' \ {0} \subseteq expired
    BY DEF closeStreamWithError, Causes, TokenInv, LateAnswersAreForgiven
  <1> QED BY <1>1, CleanupStep

\* The server is answered only for requests it knows, or knew.
LEMMA ServerIsAnswered ==
  ASSUME SafeInv, TokenInv, NEW k \in Conns, Live(k), NEW q \in ServerCalls,
         About(net[k].c2s, q), ~ServerKnows(k, q)
  PROVE  q \in expired
  <1>1. ServerToken(k, q)
    BY DEF TokenInv, Tokens, TokensAt
  <1> QED BY <1>1, WaitingType DEF ServerToken, ServerKnows, ServerExcuses

\* A stream goes from one stage to another, and the client may be told.
LEMMA StageStep ==
  ASSUME SafeInv, TokenInv, NEW k \in Conns, NEW x \in Stages, stream' = [stream EXCEPT ![k].stage = x],
         StageKept(k), \A q \in ServerCalls : call[q].st = "sent" /\ call[q].conn = k => Live(k)',
         NEW m \in DownFrames, m.q = 0, net' = net \/ net' = Down(net, k, m),
         UNCHANGED <<client, call, expired, blamed>>
  PROVE  TokenStep
  <1> DEFINE u == [stream[k] EXCEPT !.stage = x]
  <1>1. stream[k] \in Streams /\ stream' = [stream EXCEPT ![k] = u]
    BY Types
  <1>2. u \in Streams /\ u.queue = stream[k].queue /\ u.running = stream[k].running /\ u.late = stream[k].late
    BY <1>1, StreamField
  <1> HIDE DEF u
  <1>3. stream'[k] = u /\ \A i \in Conns \ {k} : stream'[i] = stream[i]
    BY <1>1, <1>2, Types, StreamStep
  <1> DEFINE d == Down(net, k, m)
  <1>4. /\ \A i \in Conns : d[i].owner = net[i].owner /\ (i # k => d[i] = net[i]) /\ d[i].c2s = net[i].c2s
        /\ Fewer(net[k].s2c, d[k].s2c)
    <2>1. /\ \A i \in Conns : d[i].owner = net[i].owner /\ (i # k => d[i] = net[i])
          /\ Fewer(net[k].s2c, d[k].s2c)
      BY Types, DownNotice
    <2>2. \A i \in Conns : d[i].c2s = net[i].c2s
      BY Types, DownType
    <2> QED BY <2>1, <2>2
  <1>5. net' = net \/ net' = d
    OBVIOUS
  <1> HIDE DEF d
  <1>6. Fewer(net[k].c2s, net[k].c2s) /\ Fewer(net[k].s2c, net[k].s2c)
    BY DEF Fewer, Less
  <1>7. /\ \A i \in Conns \ {k} : net'[i] = net[i]
        /\ net'[k].owner = net[k].owner
        /\ Fewer(net[k].c2s, net'[k].c2s) /\ Fewer(net[k].s2c, net'[k].s2c)
    BY <1>4, <1>5, <1>6
  <1>8. \A q \in Calls : WaitKept(k, q)
    BY DEF WaitKept
  <1>9. blamed' \ {0} \subseteq expired'
    BY DEF TokenInv, LateAnswersAreForgiven
  <1> QED BY <1>2, <1>3, <1>7, <1>8, <1>9, Types, ServerQuiet

\* The upgrade is refused, HELLO is sent, or the stream is activated.
LEMMA StagesStep ==
  ASSUME SafeInv, TokenInv, NEW k \in Conns, verifyClientRefuses(k) \/ SendHello(k) \/ activateStream(k)
  PROVE  TokenStep
  <1>0. /\ Close("-") \in DownFrames /\ Close("-").q = 0
        /\ Msg("hello", 0) \in DownFrames /\ Msg("hello", 0).q = 0
        /\ Msg("activated", 0) \in DownFrames /\ Msg("activated", 0).q = 0
    BY FrameType DEF Causes
  <1>1. PICK x \in Stages, m \in DownFrames :
          /\ stream' = [stream EXCEPT ![k].stage = x] /\ m.q = 0 /\ (net' = net \/ net' = Down(net, k, m))
          /\ \/ stream[k].stage = "auth" /\ x = "refused"
             \/ stream[k].stage = "check" /\ x = "handlers"
             \/ stream[k].stage = "handlers" /\ x = "activated"
    <2>1. {"refused", "handlers", "activated"} \subseteq Stages
      BY DEF Stages, Registered
    <2>2. CASE verifyClientRefuses(k)
      BY <1>0, <2>1, <2>2 DEF verifyClientRefuses
    <2>3. CASE SendHello(k)
      BY <1>0, <2>1, <2>3 DEF SendHello
    <2>4. CASE activateStream(k)
      BY <1>0, <2>1, <2>4 DEF activateStream
    <2> QED BY <2>2, <2>3, <2>4
  <1>2. UNCHANGED <<client, call, expired, blamed>>
    BY DEF verifyClientRefuses, SendHello, activateStream
  <1>3. stream'[k].stage = x
    <2>1. stream[k] \in Streams
      BY Types
    <2> QED BY <1>1, <2>1, Types DEF Streams
  <1>4. StageKept(k)
    BY <1>1, <1>3 DEF StageKept, Live, Invocable, Registered
  <1>5. \A q \in ServerCalls : call[q].st = "sent" /\ call[q].conn = k => Live(k)'
    <2>1. \A q \in ServerCalls : call[q].conn = k => stream[k].stage \in Invocable
      BY DEF TokenInv, Tokens, TokensAt, ServerToken
    <2> QED BY <1>1, <1>3, <2>1 DEF Live, Invocable, Registered
  <1> QED BY <1>1, <1>2, <1>4, <1>5, StageStep

\* The network after the server gave up connection k.
LEMMA ClearedUp ==
  ASSUME NEW n \in [Conns -> Links], NEW k \in Conns, net' = [n EXCEPT ![k].c2s = <<>>]
  PROVE  /\ net'[k].c2s = <<>>
         /\ \A i \in Conns : /\ net'[i].owner = n[i].owner /\ net'[i].s2c = n[i].s2c
                             /\ i # k => net'[i] = n[i]
  <1>1. /\ \A i \in Conns : /\ i # k => [n EXCEPT ![k].c2s = <<>>][i] = n[i]
                            /\ [n EXCEPT ![k].c2s = <<>>][i].owner = n[i].owner
                            /\ [n EXCEPT ![k].c2s = <<>>][i].s2c = n[i].s2c
        /\ [n EXCEPT ![k].c2s = <<>>][k].c2s = <<>>
    BY ClearType
  <1> QED BY Zenon, <1>1

\* A new stream is registered, and the one before it is given up.
LEMMA EstablishStep ==
  ASSUME SafeInv, TokenInv, NEW k \in Conns, NEW old, Current = old, handleStreamEstablished(k)
  PROVE  TokenStep
  <1>0. /\ stream[k].stage = "auth" /\ UNCHANGED <<client, expired, blamed>>
        /\ stream[k] \in Streams /\ reg \in [pending : 0..MaxConns, active : 0..MaxConns]
        /\ Tokens /\ Receipted /\ LateAnswersAreForgiven
    BY Types DEF handleStreamEstablished, TypeInv, TokenInv
  <1>1. (old # 0 => old \in Conns) /\ old # k
    BY <1>0, Numbers DEF SafeInv, ControlInv, EveryLiveStreamIsCurrent, Current
  <1>2. \A q \in ServerCalls : call[q].conn # k
    BY <1>0 DEF Tokens, TokensAt, ServerToken, Invocable
  <1>3. CASE old # 0 /\ ~net[k].supersede
    <2> DEFINE m == Close("conflict")
    <2>1. /\ stream' = [stream EXCEPT ![k].stage = "revoked"] /\ net' = Down(net, k, m) /\ call' = call
      BY <1>3 DEF handleStreamEstablished
    <2>2. m \in DownFrames /\ m.q = 0 /\ "revoked" \in Stages
      BY FrameType DEF Causes, Stages
    <2> HIDE DEF m
    <2>3. stream'[k].stage = "revoked"
      BY <1>0, <2>1, Types DEF Streams
    <2>4. StageKept(k)
      BY <1>0, <2>3 DEF StageKept, Invocable
    <2> QED BY <1>0, <1>2, <2>1, <2>2, <2>4, StageStep
  <1>4. CASE ~(old # 0 /\ ~net[k].supersede)
    <2> DEFINE W == IF old = 0 THEN {} ELSE Waiting(old, ServerCalls)
               u == [stream[k] EXCEPT !.stage = "check"]
               v == Revoked(old)
    <2>1. /\ stream' = [i \in Conns |-> IF i = k THEN u ELSE IF i = old THEN v ELSE stream[i]]
          /\ net' = IF old = 0 THEN net ELSE [Down(net, old, Close("supersede")) EXCEPT ![old].c2s = <<>>]
          /\ call' = Abandon(W)
      BY <1>4 DEF handleStreamEstablished
    <2>2. u.stage = "check" /\ u.queue = stream[k].queue /\ u.running = stream[k].running /\ u.late = stream[k].late
      BY <1>0, StreamField DEF Stages, Registered
    <2>3. old # 0 => v.stage = "revoked" /\ v.queue = <<>> /\ v.running = {} /\ v.late = stream[old].late
      <3>1. old # 0 => stream[old] \in Streams
        BY <1>1, Types
      <3> QED BY <3>1 DEF Revoked, Streams
    <2> HIDE DEF u, v
    <2>4. /\ stream'[k] = u /\ \A i \in Conns \ {k, old} : stream'[i] = stream[i]
          /\ old # 0 => stream'[old] = v
      BY <1>1, <2>1
    <2>5. \A q \in Calls : /\ call'[q].conn = call[q].conn /\ call'[q].runs = call[q].runs
                           /\ q \in W => call'[q].st = "indeterminate"
                           /\ q \notin W => call'[q] = call[q]
      BY <2>1, Types, AbandonType
    <2>6. \A q : q \in W <=> q \in ServerCalls /\ call[q].st = "sent" /\ call[q].conn = old /\ old # 0
      BY WaitingType
    <2> HIDE DEF W
    <2>7. /\ \A i \in Conns : net'[i].owner = net[i].owner /\ (i # old => net'[i] = net[i])
          /\ old # 0 => Fewer(net[old].s2c, net'[old].s2c) /\ Fewer(net[old].c2s, net'[old].c2s)
      <3>1. CASE old = 0
        BY <2>1, <3>1
      <3>2. CASE old # 0
        <4> DEFINE m == Close("supersede")
                   d == Down(net, old, m)
        <4>1. m \in DownFrames /\ m.q = 0
          BY FrameType DEF Causes
        <4>2. net' = [d EXCEPT ![old].c2s = <<>>] /\ old \in Conns /\ net \in [Conns -> Links]
          BY <1>1, <2>1, <3>2, Types
        <4> HIDE DEF m
        <4>3. /\ d \in [Conns -> Links]
              /\ \A i \in Conns : d[i].owner = net[i].owner /\ (i # old => d[i] = net[i])
              /\ Fewer(net[old].s2c, d[old].s2c)
          BY <4>1, <4>2, DownNotice
        <4> HIDE DEF d
        <4>4. /\ net'[old].c2s = <<>>
              /\ \A i \in Conns : /\ net'[i].owner = d[i].owner /\ net'[i].s2c = d[i].s2c
                                  /\ i # old => net'[i] = d[i]
          BY <4>2, <4>3, ClearedUp
        <4>5. Fewer(net[old].c2s, net'[old].c2s)
          BY <4>2, <4>4, FewerFrames DEF Links
        <4> QED BY <4>2, <4>3, <4>4, <4>5
      <3> QED BY <3>1, <3>2
    <2>8. ASSUME NEW i \in Conns \ {k, old} PROVE Still(i)
      <3>1. StillCalls(i)
        BY <2>5, <2>6 DEF StillCalls
      <3> QED BY <1>0, <2>4, <2>7, <3>1, ServerStill
    <2>9. TokensAt(k)'
      <3>1. \A q \in Calls : Less(net[k].c2s, net'[k].c2s, q) /\ Less(net[k].s2c, net'[k].s2c, q)
        BY <1>1, <2>7 DEF Less
      <3>2. \A q \in Calls : /\ Queued(stream'[k].queue, q) => Queued(stream[k].queue, q)
                             /\ Once(stream[k].queue, q) => Once(stream'[k].queue, q)
                             /\ q \in stream'[k].running => q \in stream[k].running
        BY <2>2, <2>4
      <3>3. StageKept(k)
        BY <1>0, <2>2, <2>4 DEF StageKept, Invocable
      <3>4. \A q \in Calls : WaitKept(k, q) \/ (q \in ServerCalls /\ call[q].conn # k)
        BY <1>2, <2>5, <2>6, Numbers DEF WaitKept
      <3>5. /\ \A q \in ClientCalls \cap Calls : ClientToken(k, q)'
            /\ \A q \in ServerCalls \cap Calls : ServerToken(k, q)'
        BY <1>0, <2>2, <2>4, <2>5, <2>7, <3>1, <3>2, <3>3, <3>4, ServerSteady
      <3> QED BY <3>5, Numbers DEF TokensAt
    <2>10. ASSUME old # 0 PROVE TokensAt(old)'
      <3>0. old \in Conns /\ stream'[old] = v
        BY <1>1, <2>4, <2>10
      <3>1. \A q \in Calls : Less(net[old].c2s, net'[old].c2s, q) /\ Less(net[old].s2c, net'[old].s2c, q)
        BY <2>7, <2>10 DEF Fewer
      <3>2. \A q \in Calls : /\ Queued(stream'[old].queue, q) => Queued(stream[old].queue, q)
                             /\ Once(stream[old].queue, q) => Once(stream'[old].queue, q)
                             /\ q \in stream'[old].running => q \in stream[old].running
        BY <2>3, <2>10, <3>0 DEF Queued, Once
      <3>3. StageKept(old) /\ ~Live(old)'
        BY <2>3, <2>10, <3>0 DEF StageKept, Invocable, Live, Registered
      <3>4. \A q \in Calls : WaitKept(old, q)
        BY <2>5, <2>6, <2>10, <3>3, Numbers DEF WaitKept
      <3>5. /\ \A q \in ClientCalls \cap Calls : ClientToken(old, q)'
            /\ \A q \in ServerCalls \cap Calls : ServerToken(old, q)'
        BY <1>0, <2>3, <2>5, <2>7, <2>10, <3>0, <3>1, <3>2, <3>3, <3>4, ServerSteady
      <3> QED BY <3>5, Numbers DEF TokensAt
    <2>11. Tokens'
      <3>1. \A i \in Conns : Still(i) \/ TokensAt(i)'
        BY <1>1, <2>8, <2>9, <2>10, Numbers
      <3> QED BY <1>0, <3>1, TokensStep
    <2>12. CallsMove
      BY <2>5, <2>6 DEF CallsMove
    <2>13. Receipted' /\ LateAnswersAreForgiven'
      BY <1>0 DEF Receipted, LateAnswersAreForgiven
    <2> QED BY <2>11, <2>12, <2>13 DEF TokenStep
  <1> QED BY <1>3, <1>4

\* Stream k gives no request but those of D a new place.
StreamKept(k, D) ==
  \A q \in Calls \ D : /\ Less(net[k].c2s, net'[k].c2s, q) /\ Less(net[k].s2c, net'[k].s2c, q)
                       /\ Queued(stream'[k].queue, q) => Queued(stream[k].queue, q)
                       /\ Once(stream[k].queue, q) => Once(stream'[k].queue, q)
                       /\ q \in stream'[k].running => q \in stream[k].running

\* Request q, which was on its way to its handler, may run now and have a receipt.
Dispatches(k, q) ==
  /\ About(net[k].c2s, q) \/ Queued(stream[k].queue, q)
  /\ ~About(net'[k].c2s, q) /\ Ordered(net'[k].c2s, q)
  /\ ~Queued(stream'[k].queue, q) /\ Once(stream'[k].queue, q)
  /\ Replies(net'[k].s2c, q) => Replies(net[k].s2c, q)
  /\ Ordered(net[k].s2c, q) /\ ~About(net[k].s2c, q) => Ordered(net'[k].s2c, q)

\* The handlers of the client requests D start on stream k.
LEMMA DispatchStep ==
  ASSUME SafeInv, TokenInv, client' = client, NEW k \in Conns, NEW D \in SUBSET ClientCalls,
         \A i \in Conns \ {k} : net'[i] = net[i] /\ stream'[i] = stream[i],
         net'[k].owner = net[k].owner, StreamKept(k, D), \A q \in D : Dispatches(k, q),
         StageKept(k), stream'[k].stage # "none", expired' = expired, stream'[k].late = stream[k].late,
         blamed' \ {0} \subseteq expired, call' \in [Calls -> Outcomes],
         \A q \in Calls : /\ call'[q].conn = call[q].conn
                          /\ call'[q].runs = IF q \in D THEN call[q].runs + 1 ELSE call[q].runs
                          /\ WaitKept(k, q)
  PROVE  TokenStep
  <1>0. Tokens /\ Receipted
    BY DEF TokenInv
  <1>1. ASSUME NEW q \in D
        PROVE  /\ ClientToken(k, q) /\ q \notin ServerCalls /\ q \in Calls
               /\ q \notin stream[k].running /\ ~About(net[k].s2c, q) /\ ~Replies(net[k].s2c, q)
               /\ Ordered(net[k].s2c, q)
               /\ call[q].runs = 0 /\ call[q].conn = k /\ call[q].st \in {"sent", "indeterminate"}
               /\ call[q].st = "indeterminate" /\ Held(k) => ClientExcuses(k, q)
               /\ call[q].st = "sent" => Held(k)
               /\ call'[q].st = call[q].st /\ call'[q].conn = k /\ call'[q].runs = 1
    <2>1. ClientToken(k, q) /\ q \notin ServerCalls /\ q \in Calls
      BY <1>0, Numbers, SrpcAssumption DEF Tokens, TokensAt
    <2>2. /\ q \notin stream[k].running /\ ~About(net[k].s2c, q) /\ Ordered(net[k].s2c, q)
          /\ call[q].runs = 0 /\ call[q].conn = k /\ call[q].st \in {"sent", "indeterminate"}
          /\ call[q].st = "indeterminate" /\ Held(k) => ClientExcuses(k, q)
          /\ call[q].st = "sent" => Held(k)
      BY <2>1 DEF ClientToken, Dispatches
    <2>3. ~Replies(net[k].s2c, q)
      BY <2>2 DEF Replies, About
    <2>4. call'[q].st = call[q].st /\ call'[q].conn = k /\ call'[q].runs = 1
      BY <2>1, <2>2 DEF WaitKept
    <2> QED BY <2>1, <2>2, <2>3, <2>4
  <1>2. \A i \in Conns \ {k} : Still(i)
    <2>1. ASSUME NEW i \in Conns \ {k} PROVE StillCalls(i)
      <3> SUFFICES ASSUME NEW q \in Calls
                   PROVE  /\ call[q].conn = i /\ call[q].st \in {"sent", "indeterminate"} => call'[q] = call[q]
                          /\ call'[q].st = "sent" /\ call'[q].conn = i => call[q].st = "sent"
                          /\ call'[q].conn = i => call[q].conn = i
        BY DEF StillCalls
      <3>1. call[q] \in Outcomes /\ call'[q] \in Outcomes
        BY Types
      <3>2. call[q].conn = i => call'[q].st = call[q].st /\ call'[q].runs = call[q].runs
        BY <1>1 DEF WaitKept
      <3>3. call[q].conn = i => call'[q] = call[q]
        BY <3>1, <3>2, SameOutcome
      <3> QED BY <3>3 DEF WaitKept
    <2> QED BY <2>1, ServerStill
  <1>3. /\ \A q \in ClientCalls \cap (Calls \ D) : ClientToken(k, q)'
        /\ \A q \in ServerCalls \cap (Calls \ D) : ServerToken(k, q)'
    <2> DEFINE Q == Calls \ D
    <2>1. /\ Q \in SUBSET Calls
          /\ \A q \in Q : /\ Less(net[k].c2s, net'[k].c2s, q) /\ Less(net[k].s2c, net'[k].s2c, q)
                          /\ Queued(stream'[k].queue, q) => Queued(stream[k].queue, q)
                          /\ Once(stream[k].queue, q) => Once(stream'[k].queue, q)
                          /\ q \in stream'[k].running => q \in stream[k].running
                          /\ call'[q].conn = call[q].conn /\ call'[q].runs = call[q].runs
                          /\ WaitKept(k, q)
      BY DEF StreamKept
    <2> HIDE DEF Q
    <2>2. /\ \A q \in ClientCalls \cap Q : ClientToken(k, q)'
          /\ \A q \in ServerCalls \cap Q : ServerToken(k, q)'
      BY <1>0, <2>1, ServerSteady
    <2> QED BY <2>2 DEF Q
  <1>4. ASSUME NEW q \in D PROVE ClientToken(k, q)'
    <2>1. (Held(k)' <=> Held(k)) /\ (ClientExcuses(k, q)' <=> ClientExcuses(k, q))
      BY DEF Held, OnSocket, Owner, ClientExcuses
    <2> QED BY <1>1, <2>1 DEF ClientToken, Dispatches
  <1>5. TokensAt(k)'
    BY <1>1, <1>3, <1>4, Numbers DEF TokensAt
  <1>6. Tokens'
    BY <1>0, <1>2, <1>5, TokensStep
  <1>7. CallsMove
    BY <1>1 DEF CallsMove, WaitKept
  <1>8. Receipted' /\ LateAnswersAreForgiven'
    BY <1>0 DEF Receipted, LateAnswersAreForgiven
  <1> QED BY <1>6, <1>7, <1>8 DEF TokenStep

\* The receipts of the requests S, written to the network n.
LEMMA ReceiptsAdded ==
  ASSUME NEW n \in [Conns -> Links], NEW k \in Conns, NEW S \in Seq(ClientCalls),
         NEW r, r = Receipts(n, k, S)
  PROVE  /\ r \in [Conns -> Links]
         /\ \A i \in Conns : /\ r[i].owner = n[i].owner /\ r[i].c2s = n[i].c2s
                             /\ i # k => r[i] = n[i]
         /\ \A q \in Calls : q \notin ToSet(S) => Less(n[k].s2c, r[k].s2c, q)
         /\ \A q \in Calls : /\ Replies(r[k].s2c, q) => Replies(n[k].s2c, q)
                             /\ Ordered(n[k].s2c, q) /\ ~About(n[k].s2c, q) /\ Once(S, q) => Ordered(r[k].s2c, q)
  <1> DEFINE f == Receipts(n, k, S)
  <1>1. /\ f \in [Conns -> Links]
        /\ \A i \in Conns : /\ f[i].owner = n[i].owner /\ f[i].c2s = n[i].c2s
                            /\ i # k => f[i] = n[i]
    BY ReceiptsType
  <1>2. \A q : /\ About(f[k].s2c, q) => About(n[k].s2c, q) \/ \E i \in DOMAIN S : S[i] = q
               /\ Replies(f[k].s2c, q) => Replies(n[k].s2c, q)
               /\ (/\ Ordered(n[k].s2c, q)
                   /\ \A i, j \in DOMAIN S : S[i] = q /\ S[j] = q => i = j
                   /\ (\E i \in DOMAIN S : S[i] = q) => ~About(n[k].s2c, q))
                  => Ordered(f[k].s2c, q)
    BY ReceiptsType
  <1>3. r = f
    OBVIOUS
  <1> HIDE DEF f
  <1>4. \A q : q \notin ToSet(S) => \A i \in DOMAIN S : S[i] # q
    BY DEF ToSet
  <1>5. \A q \in Calls : q \notin ToSet(S) => Less(n[k].s2c, f[k].s2c, q)
    BY <1>2, <1>4 DEF Less
  <1>6. \A q \in Calls : /\ Replies(f[k].s2c, q) => Replies(n[k].s2c, q)
                         /\ Ordered(n[k].s2c, q) /\ ~About(n[k].s2c, q) /\ Once(S, q) => Ordered(f[k].s2c, q)
    BY <1>2 DEF Once
  <1> QED BY <1>1, <1>3, <1>5, <1>6

\* openClientRequests() dispatches the queue, or as much of it as the limit allows.
LEMMA OpenStep ==
  ASSUME SafeInv, TokenInv, NEW k \in Conns, openClientRequests(k)
  PROVE  TokenStep
  <1> DEFINE s == stream[k].queue
             e == IF Len(s) <= MaxInFlight THEN Len(s) ELSE MaxInFlight
             S == SubSeq(s, 1, e)
             D == ToSet(S)
             n == Receipts(net, k, S)
  <1>0. /\ stream[k].stage = "activated" /\ stream[k] \in Streams /\ s \in Seq(ClientCalls)
        /\ IF S = s
           THEN /\ stream' = [stream EXCEPT ![k] = [stream[k] EXCEPT !.stage = "open", !.queue = <<>>, !.running = ToSet(S)]]
                /\ call' = Started(S) /\ net' = Receipts(net, k, S)
                /\ UNCHANGED <<client, reg, expired, blamed>>
           ELSE /\ cleanupStream(k, "badArg", Receipts(net, k, S), Started(S))
                /\ blamed' = blamed \cup {0}
        /\ Tokens /\ LateAnswersAreForgiven
    BY Types DEF openClientRequests, Streams, TokenInv
  <1>1. /\ S \in Seq(ClientCalls) /\ \A i \in DOMAIN S : i \in DOMAIN s /\ S[i] = s[i]
    <2> HIDE DEF s
    <2>1. Len(s) \in Nat /\ e \in Nat /\ e <= Len(s) /\ DOMAIN s = 1..Len(s)
      BY <1>0, SrpcAssumption
    <2> HIDE DEF e
    <2>2. /\ S \in Seq(ClientCalls) /\ DOMAIN S = 1..e /\ \A i \in 1..e : S[i] = s[i]
      BY <1>0, <2>1
    <2> QED BY <2>1, <2>2
  <1> HIDE DEF S, s
  <1>2. /\ \A q \in D : Queued(s, q)
        /\ \A q : Once(s, q) => Once(S, q)
        /\ D \in SUBSET ClientCalls
    BY <1>1 DEF Queued, Once, ToSet
  <1>3. /\ n \in [Conns -> Links]
        /\ \A i \in Conns : /\ n[i].owner = net[i].owner /\ n[i].c2s = net[i].c2s
                            /\ i # k => n[i] = net[i]
        /\ \A q \in Calls : q \notin D => Less(net[k].s2c, n[k].s2c, q)
        /\ \A q \in Calls : /\ Replies(n[k].s2c, q) => Replies(net[k].s2c, q)
                            /\ Ordered(net[k].s2c, q) /\ ~About(net[k].s2c, q) /\ Once(S, q) => Ordered(n[k].s2c, q)
    BY <1>1, Types, ReceiptsAdded
  <1>4. /\ Started(S) \in [Calls -> Outcomes]
        /\ \A q \in Calls : /\ Started(S)[q].st = call[q].st /\ Started(S)[q].conn = call[q].conn
                            /\ Started(S)[q].runs = IF q \in D THEN call[q].runs + 1 ELSE call[q].runs
    BY Types, StartedType
  <1>5. \A q \in D : /\ ClientToken(k, q) /\ q \in Calls /\ Queued(stream[k].queue, q) /\ ~About(net[k].c2s, q)
                     /\ Ordered(net[k].c2s, q) /\ Once(S, q)
    <2>1. \A q \in D : ClientToken(k, q) /\ q \in Calls /\ Queued(stream[k].queue, q)
      BY <1>0, <1>2, Numbers DEF Tokens, TokensAt, s
    <2> QED BY <1>2, <2>1 DEF ClientToken, s
  <1>6. CASE S = s
    <2> DEFINE u == [stream[k] EXCEPT !.stage = "open", !.queue = <<>>, !.running = D]
    <2>1. /\ stream' = [stream EXCEPT ![k] = u] /\ call' = Started(S) /\ net' = n
          /\ UNCHANGED <<client, expired, blamed>>
      BY <1>0, <1>6
    <2>2. "open" \in Stages /\ <<>> \in Seq(ClientCalls)
      BY DEF Stages, Registered
    <2> HIDE DEF D, n
    <2>3. u \in Streams /\ u.stage = "open" /\ u.queue = <<>> /\ u.running = D /\ u.late = stream[k].late
      BY <1>0, <1>2, <2>2 DEF Streams
    <2> HIDE DEF u
    <2>4. stream'[k] = u /\ \A i \in Conns \ {k} : stream'[i] = stream[i]
      BY <2>1, <2>3, Types, StreamStep
    <2>5. StreamKept(k, D)
      BY <1>3, <2>1, <2>3, <2>4 DEF StreamKept, Less, Queued, Once
    <2>6. \A q \in D : Dispatches(k, q)
      BY <1>3, <1>5, <2>1, <2>3, <2>4 DEF Dispatches, Queued, Once
    <2>7. StageKept(k) /\ Live(k)' /\ stream'[k].stage # "none"
      BY <1>0, <2>3, <2>4 DEF StageKept, Live, Registered, Invocable
    <2>8. \A q \in Calls : /\ call'[q].conn = call[q].conn
                           /\ call'[q].runs = IF q \in D THEN call[q].runs + 1 ELSE call[q].runs
                           /\ WaitKept(k, q)
      BY <1>4, <2>1, <2>7 DEF WaitKept
    <2>9. /\ \A i \in Conns \ {k} : net'[i] = net[i] /\ stream'[i] = stream[i]
          /\ net'[k].owner = net[k].owner /\ stream'[k].late = stream[k].late
          /\ call' \in [Calls -> Outcomes] /\ blamed' \ {0} \subseteq expired
      BY <1>0, <1>3, <1>4, <2>1, <2>3, <2>4 DEF LateAnswersAreForgiven
    <2> QED BY <1>2, <2>1, <2>5, <2>6, <2>7, <2>8, <2>9, DispatchStep
  <1>7. CASE S # s
    <2> DEFINE r == Started(S)
    <2>1. cleanupStream(k, "badArg", n, r) /\ "badArg" \in Causes /\ blamed' = blamed \cup {0}
      BY <1>0, <1>7 DEF Causes
    <2>2. Dispatched(n, r, k)
      BY <1>1, Types, DispatchedCases
    <2>3. r \in [Calls -> Outcomes]
      BY <1>4
    <2> HIDE DEF n, r, D
    <2>4. /\ \A i \in Conns \ {k} : stream'[i] = stream[i]
          /\ stream'[k].stage = "revoked" /\ stream'[k].queue = <<>> /\ stream'[k].running = {}
          /\ call' \in [Calls -> Outcomes] /\ UNCHANGED <<client, expired>>
      BY <1>3, <2>1, <2>2, <2>3, Types, CleanupEffect
    <2>5. /\ \A i \in Conns : net'[i].owner = net[i].owner /\ (i # k => net'[i] = net[i])
          /\ net'[k].c2s = <<>> /\ Fewer(n[k].s2c, net'[k].s2c)
      BY <1>3, <2>1, <2>2, <2>3, Types, CleanupEffect
    <2>6. \A q \in Calls : /\ call'[q].conn = call[q].conn /\ call'[q].runs = r[q].runs
                           /\ call'[q].st = IF q \in Waiting(k, ServerCalls) THEN "indeterminate" ELSE call[q].st
      BY <1>3, <2>1, <2>2, <2>3, Types, CleanupEffect
    <2>7. stream'[k].late = stream[k].late
      <3>1. stream' = [stream EXCEPT ![k] = Revoked(k)]
        BY <2>1 DEF cleanupStream
      <3>2. Revoked(k).late = stream[k].late
        BY <1>0 DEF Revoked, Streams
      <3> QED BY <3>1, <3>2, Types
    <2>8. StageKept(k) /\ ~Live(k)' /\ stream'[k].stage # "none"
      BY <2>4 DEF StageKept, Live, Registered, Invocable
    <2>9. StreamKept(k, D)
      BY <1>3, <2>4, <2>5, NoFrame DEF StreamKept, Fewer, Less, Queued, Once
    <2>10. \A q \in D : Dispatches(k, q)
      BY <1>3, <1>5, <2>4, <2>5, NoFrame DEF Dispatches, Fewer, Less, Queued, Once
    <2>11. \A q \in Calls : /\ call'[q].runs = IF q \in D THEN call[q].runs + 1 ELSE call[q].runs
                            /\ WaitKept(k, q)
      BY <1>4, <2>6, <2>8, WaitingType DEF WaitKept, r
    <2>12. blamed' \ {0} \subseteq expired
      BY <1>0, <2>1 DEF LateAnswersAreForgiven
    <2> QED BY <1>2, <2>4, <2>5, <2>6, <2>7, <2>8, <2>9, <2>10, <2>11, <2>12, DispatchStep
  <1> QED BY <1>6, <1>7

\* A step of the server that moves request q, and it alone, on stream k.
LEMMA ServerMoves ==
  ASSUME SafeInv, TokenInv, NEW k \in Conns, NEW q \in Calls, StreamKept(k, {q}),
         \A i \in Conns \ {k} : net'[i] = net[i] /\ stream'[i] = stream[i] /\ StillCalls(i),
         net'[k].owner = net[k].owner, stream'[k].stage = stream[k].stage, stream'[k].late = stream[k].late,
         UNCHANGED <<client, expired, blamed>>, \A p \in Calls \ {q} : call'[p] = call[p], CallsMove,
         q \in ClientCalls => ClientToken(k, q)', q \in ServerCalls => ServerToken(k, q)'
  PROVE  TokenStep
  <1>0. Tokens /\ Receipted /\ LateAnswersAreForgiven
    BY DEF TokenInv
  <1>1. \A i \in Conns \ {k} : Still(i)
    BY ServerStill
  <1>2. /\ \A p \in ClientCalls \cap (Calls \ {q}) : ClientToken(k, p)'
        /\ \A p \in ServerCalls \cap (Calls \ {q}) : ServerToken(k, p)'
    <2> DEFINE Q == Calls \ {q}
    <2>1. StageKept(k) /\ (Live(k)' <=> Live(k))
      BY DEF StageKept, Live
    <2>2. \A p \in ServerCalls : call[p].st = "sent" /\ call[p].conn = k => Live(k)
      BY <1>0 DEF Tokens, TokensAt, ServerToken
    <2>3. /\ Q \in SUBSET Calls
          /\ \A p \in Q : /\ Less(net[k].c2s, net'[k].c2s, p) /\ Less(net[k].s2c, net'[k].s2c, p)
                          /\ Queued(stream'[k].queue, p) => Queued(stream[k].queue, p)
                          /\ Once(stream[k].queue, p) => Once(stream'[k].queue, p)
                          /\ p \in stream'[k].running => p \in stream[k].running
                          /\ call'[p].conn = call[p].conn /\ call'[p].runs = call[p].runs
                          /\ WaitKept(k, p)
      BY <2>1, <2>2 DEF StreamKept, WaitKept
    <2> HIDE DEF Q
    <2>4. /\ \A p \in ClientCalls \cap Q : ClientToken(k, p)'
          /\ \A p \in ServerCalls \cap Q : ServerToken(k, p)'
      BY <1>0, <2>1, <2>3, ServerSteady
    <2> QED BY <2>4 DEF Q
  <1>3. TokensAt(k)'
    BY <1>2, Numbers DEF TokensAt
  <1>4. Tokens'
    BY <1>0, <1>1, <1>3, TokensStep
  <1>5. Receipted' /\ LateAnswersAreForgiven'
    BY <1>0 DEF Receipted, LateAnswersAreForgiven
  <1> QED BY <1>4, <1>5 DEF TokenStep

\* A request joins the queue of a stream.
LEMMA AppendQueued ==
  ASSUME NEW s \in Seq(ClientCalls), NEW q \in ClientCalls
  PROVE  /\ \A p \in Calls \ {q} : /\ Queued(Append(s, q), p) => Queued(s, p)
                                   /\ Once(s, p) => Once(Append(s, q), p)
         /\ ~Queued(s, q) => Once(Append(s, q), q)
  <1>1. /\ Len(s) \in Nat /\ DOMAIN s = 1..Len(s) /\ DOMAIN Append(s, q) = 1..(Len(s) + 1)
        /\ \A i \in 1..Len(s) : Append(s, q)[i] = s[i]
        /\ Append(s, q)[Len(s) + 1] = q
    BY AppendProperties
  <1>2. \A i \in DOMAIN Append(s, q) : i \in DOMAIN s \/ i = Len(s) + 1
    BY <1>1
  <1> QED BY <1>1, <1>2 DEF Queued, Once

\* A client request waits for the activation of its stream.
LEMMA QueueStep ==
  ASSUME SafeInv, TokenInv, NEW k \in Conns, Live(k), NEW q \in ClientCalls,
         net[k].c2s # <<>>, Head(net[k].c2s).q = q, Head(net[k].c2s).t = "request", net' = PopUp(k),
         stream' = [stream EXCEPT ![k].queue = Append(@, q)], UNCHANGED <<client, call, expired, blamed>>
  PROVE  TokenStep
  <1> DEFINE s == stream[k].queue
             x == Append(s, q)
             u == [stream[k] EXCEPT !.queue = x]
  <1>0. /\ Tokens /\ q \in Calls /\ q \notin ServerCalls /\ stream[k] \in Streams /\ s \in Seq(ClientCalls)
        /\ stream' = [stream EXCEPT ![k] = u]
    BY Numbers, SrpcAssumption, Types DEF TokenInv, Streams
  <1>1. x \in Seq(ClientCalls)
    BY <1>0
  <1>2. /\ \A p \in Calls \ {q} : /\ Queued(x, p) => Queued(s, p)
                                  /\ Once(s, p) => Once(x, p)
        /\ ~Queued(s, q) => Once(x, q)
    BY <1>0, AppendQueued
  <1> HIDE DEF x
  <1>3. /\ u \in Streams /\ u.stage = stream[k].stage /\ u.queue = x /\ u.running = stream[k].running
        /\ u.late = stream[k].late
    BY <1>0, <1>1, StreamField
  <1> HIDE DEF u
  <1>4. stream'[k] = u /\ \A i \in Conns \ {k} : stream'[i] = stream[i]
    BY <1>0, <1>3, Types, StreamStep
  <1>5. /\ \A i \in Conns \ {k} : net'[i] = net[i]
        /\ net'[k].owner = net[k].owner /\ net'[k].s2c = net[k].s2c
        /\ Leaves(net[k].c2s, net'[k].c2s, Head(net[k].c2s))
    BY Types, PopUpTokens
  <1>6. /\ About(net[k].c2s, q) /\ \A p \in Calls : Less(net[k].c2s, net'[k].c2s, p)
        /\ Ordered(net[k].c2s, q) => ~About(net'[k].c2s, q)
    BY <1>5 DEF Leaves, Fewer
  <1>7. StreamKept(k, {q})
    BY <1>2, <1>3, <1>4, <1>5, <1>6 DEF StreamKept, Less
  <1>8. ClientToken(k, q)'
    <2>1. ClientToken(k, q)
      BY <1>0 DEF Tokens, TokensAt
    <2>2. /\ ~Queued(s, q) /\ q \notin stream[k].running /\ ~About(net[k].s2c, q) /\ call[q].runs = 0
          /\ Ordered(net[k].c2s, q) /\ Ordered(net[k].s2c, q)
          /\ call[q].conn = k /\ call[q].st \in {"sent", "indeterminate"}
          /\ call[q].st = "indeterminate" /\ Held(k) => ClientExcuses(k, q)
          /\ call[q].st = "sent" => Held(k)
      BY <1>6, <2>1 DEF ClientToken
    <2>3. (Held(k)' <=> Held(k)) /\ (ClientExcuses(k, q)' <=> ClientExcuses(k, q))
      BY <1>5 DEF Held, OnSocket, Owner, ClientExcuses
    <2>4. Ordered(net'[k].c2s, q) /\ ~About(net'[k].c2s, q) /\ Once(stream'[k].queue, q)
      BY <1>0, <1>2, <1>3, <1>4, <1>6, <2>2 DEF Less
    <2>5. stream'[k].stage # "none"
      BY <1>3, <1>4 DEF Live, Registered
    <2> QED BY <1>3, <1>4, <1>5, <2>2, <2>3, <2>4, <2>5 DEF ClientToken
  <1>9. CallsMove /\ \A i \in Conns : StillCalls(i)
    BY DEF CallsMove, StillCalls
  <1> QED BY <1>0, <1>3, <1>4, <1>5, <1>7, <1>8, <1>9, ServerMoves

\* The handler of a client request ends.
LEMMA EndStep ==
  ASSUME SafeInv, TokenInv, NEW k \in Conns, NEW q \in ClientCalls, handleClientRequestEnds(k, q)
  PROVE  TokenStep
  <1> DEFINE x == stream[k].running \ {q}
             u == [stream[k] EXCEPT !.running = x]
             m == Msg("reply", q)
  <1>0. /\ stream' = [stream EXCEPT ![k] = u] /\ net' = Down(net, k, m) /\ q \in stream[k].running
        /\ UNCHANGED <<client, call, expired, blamed>> /\ Tokens /\ q \in Calls /\ q \notin ServerCalls
    BY Numbers, SrpcAssumption DEF handleClientRequestEnds, TokenInv
  <1>1. x \in SUBSET ClientCalls /\ stream[k] \in Streams
    BY Types DEF Streams
  <1>2. m \in DownFrames /\ m.t = "reply" /\ m.q = q
    BY FrameType
  <1> HIDE DEF m
  <1>3. /\ u \in Streams /\ u.stage = stream[k].stage /\ u.queue = stream[k].queue /\ u.running = x
        /\ u.late = stream[k].late
    BY <1>1, StreamField, ZenonT(60)
  <1> HIDE DEF u
  <1>4. stream'[k] = u /\ \A i \in Conns \ {k} : stream'[i] = stream[i]
    BY <1>0, <1>3, Types, StreamStep
  <1>5. /\ \A i \in Conns \ {k} : net'[i] = net[i]
        /\ net'[k].owner = net[k].owner /\ net'[k].c2s = net[k].c2s
        /\ Joins(net[k].s2c, net'[k].s2c, q, m.t)
        /\ q \in ClientCalls /\ m.t = "reply" /\ Ordered(net[k].s2c, q) /\ ~Replies(net[k].s2c, q)
              => Ordered(net'[k].s2c, q)
    BY <1>0, <1>2, Types, DownTokens
  <1>6. StreamKept(k, {q})
    BY <1>3, <1>4, <1>5 DEF StreamKept, Less, Joins
  <1>7. ClientToken(k, q)'
    <2>1. ClientToken(k, q)
      BY <1>0 DEF Tokens, TokensAt
    <2>2. /\ ~Queued(stream[k].queue, q) /\ ~About(net[k].c2s, q) /\ call[q].runs = 1
          /\ Ordered(net[k].c2s, q) /\ Ordered(net[k].s2c, q) /\ Once(stream[k].queue, q)
          /\ ~Replies(net[k].s2c, q) /\ stream[k].stage # "none"
          /\ call[q].conn = k /\ call[q].st \in {"sent", "indeterminate"}
          /\ call[q].st = "indeterminate" /\ Held(k) => ClientExcuses(k, q)
          /\ call[q].st = "sent" => Held(k)
      BY <1>0, <2>1 DEF ClientToken
    <2>3. (Held(k)' <=> Held(k)) /\ (ClientExcuses(k, q)' <=> ClientExcuses(k, q))
      BY <1>0, <1>5 DEF Held, OnSocket, Owner, ClientExcuses
    <2>4. Ordered(net'[k].s2c, q) /\ q \notin stream'[k].running
      BY <1>2, <1>3, <1>4, <1>5, <2>2
    <2> QED BY <1>0, <1>3, <1>4, <1>5, <2>2, <2>3, <2>4 DEF ClientToken
  <1>8. CallsMove /\ \A i \in Conns : StillCalls(i)
    BY <1>0 DEF CallsMove, StillCalls
  <1> QED BY <1>0, <1>3, <1>4, <1>5, <1>6, <1>7, <1>8, ServerMoves

\* A client request reaches an open stream.
LEMMA RunStep ==
  ASSUME SafeInv, TokenInv, NEW k \in Conns, Live(k), NEW q \in ClientCalls,
         net[k].c2s # <<>>, Head(net[k].c2s).q = q, Head(net[k].c2s).t = "request",
         net' = Receipts(PopUp(k), k, <<q>>), call' = Started(<<q>>),
         stream' = [stream EXCEPT ![k].running = @ \cup {q}], UNCHANGED <<client, expired, blamed>>
  PROVE  TokenStep
  <1> DEFINE x == stream[k].running \cup {q}
             u == [stream[k] EXCEPT !.running = x]
             n == PopUp(k)
             S == <<q>>
             D == {q}
  <1>0. /\ Tokens /\ q \in Calls /\ q \notin ServerCalls /\ stream[k] \in Streams /\ x \in SUBSET ClientCalls
        /\ stream' = [stream EXCEPT ![k] = u]
    BY Numbers, SrpcAssumption, Types DEF TokenInv, Streams
  <1>1. S \in Seq(ClientCalls) /\ ToSet(S) = D /\ Once(S, q)
    <2>1. S \in Seq(ClientCalls) /\ DOMAIN S = {1} /\ S[1] = q
      OBVIOUS
    <2> HIDE DEF S
    <2> QED BY <2>1 DEF ToSet, Once
  <1>2. n \in [Conns -> Links]
    BY Types, PopUpEffect
  <1>3. /\ \A i \in Conns \ {k} : n[i] = net[i]
        /\ n[k].owner = net[k].owner /\ n[k].s2c = net[k].s2c
        /\ Leaves(net[k].c2s, n[k].c2s, Head(net[k].c2s))
    BY Types, PopUpTokens
  <1> HIDE DEF n, S, x
  <1>4. /\ \A i \in Conns : /\ net'[i].owner = n[i].owner /\ net'[i].c2s = n[i].c2s
                            /\ i # k => net'[i] = n[i]
        /\ \A p \in Calls : p \notin ToSet(S) => Less(n[k].s2c, net'[k].s2c, p)
        /\ \A p \in Calls : /\ Replies(net'[k].s2c, p) => Replies(n[k].s2c, p)
                            /\ Ordered(n[k].s2c, p) /\ ~About(n[k].s2c, p) /\ Once(S, p) => Ordered(net'[k].s2c, p)
    <2> DEFINE r == Receipts(n, k, S)
    <2>1. net' = r
      BY DEF n, S
    <2>2. /\ \A i \in Conns : /\ r[i].owner = n[i].owner /\ r[i].c2s = n[i].c2s
                              /\ i # k => r[i] = n[i]
          /\ \A p \in Calls : p \notin ToSet(S) => Less(n[k].s2c, r[k].s2c, p)
          /\ \A p \in Calls : /\ Replies(r[k].s2c, p) => Replies(n[k].s2c, p)
                              /\ Ordered(n[k].s2c, p) /\ ~About(n[k].s2c, p) /\ Once(S, p) => Ordered(r[k].s2c, p)
      BY <1>1, <1>2, ReceiptsAdded
    <2> HIDE DEF r
    <2> QED BY <2>1, <2>2
  <1>5. /\ call' \in [Calls -> Outcomes]
        /\ \A p \in Calls : /\ call'[p].st = call[p].st /\ call'[p].conn = call[p].conn
                            /\ call'[p].runs = IF p \in D THEN call[p].runs + 1 ELSE call[p].runs
    <2>1. call' = Started(S)
      BY DEF S
    <2>2. /\ Started(S) \in [Calls -> Outcomes]
          /\ \A p \in Calls : /\ Started(S)[p].st = call[p].st /\ Started(S)[p].conn = call[p].conn
                              /\ Started(S)[p].runs = IF p \in ToSet(S) THEN call[p].runs + 1 ELSE call[p].runs
      BY Types, StartedType
    <2> QED BY <1>1, <2>1, <2>2
  <1>6. /\ u \in Streams /\ u.stage = stream[k].stage /\ u.queue = stream[k].queue /\ u.running = x
        /\ u.late = stream[k].late
    BY <1>0, StreamField, ZenonT(60)
  <1> HIDE DEF u
  <1>7. stream'[k] = u /\ \A i \in Conns \ {k} : stream'[i] = stream[i]
    BY <1>0, <1>6, Types, StreamStep
  <1>8. /\ About(net[k].c2s, q) /\ \A p \in Calls : Less(net[k].c2s, net'[k].c2s, p)
        /\ Ordered(net[k].c2s, q) => ~About(net'[k].c2s, q)
    BY <1>3, <1>4 DEF Leaves, Fewer
  <1>9. StreamKept(k, D)
    BY <1>1, <1>3, <1>4, <1>6, <1>7, <1>8 DEF StreamKept, x
  <1>10. Dispatches(k, q)
    <2>1. ClientToken(k, q)
      BY <1>0 DEF Tokens, TokensAt
    <2>2. ~Queued(stream[k].queue, q) /\ Once(stream[k].queue, q) /\ Ordered(net[k].c2s, q)
      BY <1>8, <2>1 DEF ClientToken
    <2> QED BY <1>0, <1>1, <1>3, <1>4, <1>6, <1>7, <1>8, <2>2 DEF Dispatches, Less
  <1>11. StageKept(k) /\ Live(k)' /\ stream'[k].stage # "none"
    BY <1>6, <1>7 DEF StageKept, Live, Registered
  <1>12. \A p \in Calls : WaitKept(k, p)
    BY <1>5, <1>11 DEF WaitKept
  <1>13. /\ \A i \in Conns \ {k} : net'[i] = net[i] /\ stream'[i] = stream[i]
         /\ net'[k].owner = net[k].owner /\ stream'[k].late = stream[k].late
         /\ blamed' \ {0} \subseteq expired /\ \A p \in D : Dispatches(k, p)
    BY <1>3, <1>4, <1>6, <1>7, <1>10 DEF TokenInv, LateAnswersAreForgiven
  <1>14. D \in SUBSET ClientCalls
    OBVIOUS
  <1> HIDE DEF D
  <1> QED BY <1>5, <1>9, <1>11, <1>12, <1>13, <1>14, DispatchStep

\* A reply reaches the server that waits for it.
LEMMA ServerReplyStep ==
  ASSUME SafeInv, TokenInv, NEW k \in Conns, NEW q \in ServerCalls,
         net[k].c2s # <<>>, Head(net[k].c2s).q = q, Head(net[k].c2s).t = "reply", net' = PopUp(k),
         q \in Waiting(k, ServerCalls), call' = Set(q, "result"),
         UNCHANGED <<client, stream, expired, blamed>>
  PROVE  TokenStep
  <1>0. Tokens /\ q \in Calls /\ q \notin ClientCalls /\ call[q].st = "sent" /\ call[q].conn = k
    BY Numbers, SrpcAssumption, WaitingType DEF TokenInv
  <1>1. /\ \A i \in Conns \ {k} : net'[i] = net[i]
        /\ net'[k].owner = net[k].owner /\ net'[k].s2c = net[k].s2c
        /\ Leaves(net[k].c2s, net'[k].c2s, Head(net[k].c2s))
    BY Types, PopUpTokens
  <1>2. /\ About(net[k].c2s, q) /\ Replies(net[k].c2s, q)
        /\ \A p \in Calls : Less(net[k].c2s, net'[k].c2s, p)
        /\ Ordered(net[k].c2s, q) => ~About(net'[k].c2s, q)
    BY <1>1 DEF Leaves, Fewer
  <1>3. ServerToken(k, q)
    BY <1>0 DEF Tokens, TokensAt
  <1>4. /\ call[q].runs = 1 /\ ~About(net[k].s2c, q) /\ ~Handling(k, q) /\ stream[k].stage \in Invocable
        /\ Ordered(net[k].c2s, q) /\ Ordered(net[k].s2c, q)
    BY <1>0, <1>2, <1>3 DEF ServerToken
  <1>5. /\ \A p \in Calls \ {q} : call'[p] = call[p]
        /\ call'[q].st = "result" /\ call'[q].conn = call[q].conn /\ call'[q].runs = call[q].runs
    <2>1. "result" \in Statuses
      BY DEF Statuses
    <2> QED BY <1>0, <2>1, Types, CallChanges
  <1>6. \A i \in Conns \ {k} : StillCalls(i)
    BY <1>0, <1>5 DEF StillCalls
  <1>7. StreamKept(k, {q})
    BY <1>1, <1>2 DEF StreamKept, Less
  <1>8. ServerToken(k, q)'
    <2>1. ~About(net'[k].c2s, q) /\ Ordered(net'[k].c2s, q)
      BY <1>0, <1>2, <1>4 DEF Less
    <2>2. ~Handling(k, q)'
      BY <1>1, <1>4 DEF Handling, Held, OnSocket, Owner
    <2> QED BY <1>1, <1>4, <1>5, <2>1, <2>2 DEF ServerToken
  <1>9. CallsMove
    BY <1>0, <1>4, <1>5 DEF CallsMove
  <1> QED BY <1>0, <1>1, <1>5, <1>6, <1>7, <1>8, <1>9, ServerMoves

\* The server writes a request.
LEMMA ServerSendStep ==
  ASSUME SafeInv, TokenInv, NEW k \in Conns, NEW q \in ServerCalls, call[q].st = "new",
         stream[k].stage \in {"handlers", "activated", "open"}, net' = Down(net, k, Msg("request", q)),
         call' = [call EXCEPT ![q] = [call[q] EXCEPT !.st = "sent", !.conn = k]],
         UNCHANGED <<client, stream, expired, blamed>>
  PROVE  TokenStep
  <1> DEFINE m == Msg("request", q)
  <1>0. /\ Tokens /\ q \in Calls /\ q \notin ClientCalls /\ k # 0
        /\ Counted(q) /\ m \in DownFrames /\ m.q = q /\ m.t = "request"
    BY Numbers, SrpcAssumption, FrameType DEF TokenInv
  <1>1. net' = Down(net, k, m)
    OBVIOUS
  <1> HIDE DEF m
  <1>2. /\ \A i \in Conns \ {k} : net'[i] = net[i]
        /\ net'[k].owner = net[k].owner /\ net'[k].c2s = net[k].c2s
        /\ Joins(net[k].s2c, net'[k].s2c, q, m.t)
    BY <1>0, <1>1, Types, DownTokens
  <1>3. /\ \A p \in Calls \ {q} : call'[p] = call[p]
        /\ call'[q].st = "sent" /\ call'[q].conn = k /\ call'[q].runs = call[q].runs
    BY <1>0, Types, CallIsSent
  <1>4. ServerToken(k, q) /\ call[q].runs = 0
    BY <1>0 DEF Tokens, TokensAt, Counted
  <1>5. /\ ~About(net[k].c2s, q) /\ ~About(net[k].s2c, q) /\ ~Handling(k, q)
        /\ Ordered(net[k].c2s, q) /\ Ordered(net[k].s2c, q)
    BY <1>4 DEF ServerToken
  <1>6. \A i \in Conns \ {k} : StillCalls(i)
    BY <1>3 DEF StillCalls
  <1>7. StreamKept(k, {q})
    BY <1>2 DEF StreamKept, Less, Joins
  <1>8. ServerToken(k, q)'
    <2>1. ~Handling(k, q)' /\ Live(k)' /\ stream'[k].stage \in Invocable
      BY <1>2, <1>5 DEF Handling, Held, OnSocket, Owner, Live, Registered, Invocable
    <2>2. Ordered(net'[k].s2c, q)
      BY <1>2, <1>5 DEF Joins
    <2> QED BY <1>2, <1>3, <1>4, <1>5, <2>1, <2>2 DEF ServerToken
  <1>9. CallsMove
    BY <1>0, <1>3 DEF CallsMove
  <1> QED BY <1>0, <1>2, <1>3, <1>6, <1>7, <1>8, <1>9, ServerMoves

\* A step of the server that only notes something about its own requests.
LEMMA NoteStep ==
  ASSUME SafeInv, TokenInv, client' = client, NEW k \in Conns, NEW u \in Streams, stream' = [stream EXCEPT ![k] = u],
         u.stage = stream[k].stage, u.queue = stream[k].queue, u.running = stream[k].running,
         expired \subseteq expired', stream[k].late \cup expired \subseteq u.late \cup expired',
         blamed' \ {0} \subseteq expired', call' \in [Calls -> Outcomes],
         \A i \in Conns \ {k} : net'[i] = net[i], net'[k].owner = net[k].owner,
         Fewer(net[k].c2s, net'[k].c2s), Fewer(net[k].s2c, net'[k].s2c),
         \A q \in Calls : \/ call'[q] = call[q]
                          \/ /\ q \in ServerCalls /\ call[q].st = "sent" /\ call[q].conn = k /\ q \in u.late
                             /\ call'[q].st = "indeterminate" /\ call'[q].conn = call[q].conn
                             /\ call'[q].runs = call[q].runs
  PROVE  TokenStep
  <1>1. stream'[k] = u /\ \A i \in Conns \ {k} : stream'[i] = stream[i]
    BY Types, StreamStep
  <1>2. StageKept(k) /\ (Live(k)' <=> Live(k))
    BY <1>1 DEF StageKept, Live
  <1>3. \A q \in ServerCalls : call[q].st = "sent" /\ call[q].conn = k => Live(k)
    BY DEF TokenInv, Tokens, TokensAt, ServerToken
  <1>4. \A q \in Calls : call'[q].conn = call[q].conn /\ call'[q].runs = call[q].runs /\ WaitKept(k, q)
    BY <1>1, <1>2, <1>3 DEF WaitKept
  <1> QED BY <1>1, <1>2, <1>4, ServerQuiet

\* handleWsMessage() and handleStreamDataReceived().
LEMMA ServerReceivesStep ==
  ASSUME SafeInv, TokenInv, NEW k \in Conns, ServerReceives(k)
  PROVE  TokenStep
  <1> DEFINE h == Head(net[k].c2s)
  <1>0. /\ Live(k) /\ net[k].c2s # <<>> /\ blamed \ {0} \subseteq expired /\ stream[k] \in Streams
        /\ call \in [Calls -> Outcomes]
    BY Types DEF ServerReceives, TokenInv, LateAnswersAreForgiven
  <1>1. PICK m \in UpFrames :
          /\ m = h
          /\ \/ m.t = "close" /\ cleanupStream(k, m.cause, net, call) /\ UNCHANGED blamed
             \/ m.t = "request" /\ stream[k].stage # "open" /\ queueClientRequest(k, m.q)
             \/ m.t = "request" /\ stream[k].stage = "open" /\ dispatchClientRequest(k, m.q)
             \/ m.t = "reply" /\ receiveReply(k, m.q)
             \/ m.t = "ack" /\ receiveRequestAck(k, m.q)
    <2>1. h \in UpFrames
      BY <1>0, Types DEF Links
    <2>2. \/ h.t = "close" /\ cleanupStream(k, h.cause, net, call) /\ UNCHANGED blamed
          \/ h.t = "request" /\ stream[k].stage # "open" /\ queueClientRequest(k, h.q)
          \/ h.t = "request" /\ stream[k].stage = "open" /\ dispatchClientRequest(k, h.q)
          \/ h.t = "reply" /\ receiveReply(k, h.q)
          \/ h.t = "ack" /\ receiveRequestAck(k, h.q)
      BY DEF ServerReceives
    <2> QED BY <2>1, <2>2
  <1>2. /\ m.t = "request" => m.q \in ClientCalls
        /\ m.t \in {"reply", "ack"} => m.q \in ServerCalls
        /\ m.cause \in Causes
    BY <1>1, FrameFields
  <1>3. net' = PopUp(k) => /\ \A i \in Conns \ {k} : net'[i] = net[i]
                           /\ net'[k].owner = net[k].owner
                           /\ Fewer(net[k].c2s, net'[k].c2s) /\ Fewer(net[k].s2c, net'[k].s2c)
    <2>1. /\ \A i \in Conns \ {k} : PopUp(k)[i] = net[i]
          /\ PopUp(k)[k].owner = net[k].owner /\ PopUp(k)[k].s2c = net[k].s2c
          /\ Leaves(net[k].c2s, PopUp(k)[k].c2s, Head(net[k].c2s))
      BY <1>0, Types, PopUpTokens
    <2> DEFINE n == PopUp(k)
    <2>2. Fewer(net[k].c2s, n[k].c2s) /\ Fewer(net[k].s2c, n[k].s2c)
      BY <2>1 DEF Leaves, Fewer, Less
    <2> QED BY <2>1, <2>2
  <1>4. m.t \in {"reply", "ack"} /\ ~ServerKnows(k, m.q) => m.q \in expired
    <2>1. About(net[k].c2s, h.q)
      <3> DEFINE x == net[k].c2s
      <3>1. x \in Seq(UpFrames) /\ x # <<>>
        BY <1>0, Types DEF Links
      <3> HIDE DEF x
      <3>2. About(x, Head(x).q)
        BY <3>1, TailFrame
      <3> QED BY <3>2 DEF x
    <2> QED BY <1>0, <1>1, <1>2, <2>1, ServerIsAnswered
  <1>5. stream' = stream /\ net' = PopUp(k) /\ UNCHANGED <<client, call, expired, blamed>> => TokenStep
    <2> SUFFICES ASSUME stream' = stream, net' = PopUp(k), UNCHANGED <<client, call, expired, blamed>>
                 PROVE  TokenStep
      OBVIOUS
    <2> DEFINE u == stream[k]
    <2>1. stream' = [stream EXCEPT ![k] = u] /\ u \in Streams
      BY <1>0, Types
    <2> HIDE DEF u
    <2>2. /\ u.stage = stream[k].stage /\ u.queue = stream[k].queue /\ u.running = stream[k].running
          /\ u.late = stream[k].late
      BY DEF u
    <2> QED BY <1>0, <1>3, <2>1, <2>2, NoteStep
  <1>6. CASE m.t = "close" /\ cleanupStream(k, m.cause, net, call) /\ UNCHANGED blamed
    BY <1>0, <1>2, <1>6, CleanupStep
  <1>7. CASE m.t = "request" /\ stream[k].stage # "open" /\ queueClientRequest(k, m.q)
    <2>1. CASE stream[k].stage # "check" /\ Len(stream[k].queue) >= MaxQueued
      <3>1. closeStreamWithError(k, 0)
        BY <1>7, <2>1 DEF queueClientRequest
      <3> QED BY <3>1, StreamErrorStep
    <2>2. CASE ~(stream[k].stage # "check" /\ Len(stream[k].queue) >= MaxQueued)
      <3>1. /\ stream' = stream \/ stream' = [stream EXCEPT ![k].queue = Append(@, m.q)]
            /\ net' = PopUp(k) /\ UNCHANGED <<client, call, expired, blamed>>
        BY <1>7, <2>2 DEF queueClientRequest
      <3>2. CASE stream' = [stream EXCEPT ![k].queue = Append(@, m.q)]
        BY <1>0, <1>1, <1>2, <1>7, <3>1, <3>2, QueueStep
      <3> QED BY <1>5, <3>1, <3>2
    <2> QED BY <2>1, <2>2
  <1>8. CASE m.t = "request" /\ stream[k].stage = "open" /\ dispatchClientRequest(k, m.q)
    <2>1. CASE Cardinality(stream[k].running) >= MaxInFlight
      <3>1. closeStreamWithError(k, 0)
        BY <1>8, <2>1 DEF dispatchClientRequest
      <3> QED BY <3>1, StreamErrorStep
    <2>2. CASE ~(Cardinality(stream[k].running) >= MaxInFlight)
      <3>1. /\ stream' = [stream EXCEPT ![k].running = @ \cup {m.q}]
            /\ net' = Receipts(PopUp(k), k, <<m.q>>) /\ call' = Started(<<m.q>>)
            /\ UNCHANGED <<client, expired, blamed>>
        BY <1>8, <2>2 DEF dispatchClientRequest
      <3> QED BY <1>0, <1>1, <1>2, <1>8, <3>1, RunStep
    <2> QED BY <2>1, <2>2
  <1>9. CASE m.t = "reply" /\ receiveReply(k, m.q)
    <2>1. CASE ServerKnows(k, m.q)
      <3>1. /\ net' = PopUp(k) /\ UNCHANGED <<client, stream, expired, blamed>>
            /\ call' = IF m.q \in Waiting(k, ServerCalls) THEN Set(m.q, "result") ELSE call
        BY <1>9, <2>1 DEF receiveReply
      <3>2. CASE m.q \in Waiting(k, ServerCalls)
        <4>1. call' = Set(m.q, "result")
          BY <3>1, <3>2
        <4> QED BY <1>0, <1>1, <1>2, <1>9, <3>1, <3>2, <4>1, ServerReplyStep
      <3>3. CASE m.q \notin Waiting(k, ServerCalls)
        BY <1>5, <3>1, <3>3
      <3> QED BY <3>2, <3>3
    <2>2. CASE ~ServerKnows(k, m.q)
      <3>1. closeStreamWithError(k, m.q)
        BY <1>9, <2>2 DEF receiveReply
      <3> QED BY <1>4, <1>9, <2>2, <3>1, StreamErrorStep
    <2> QED BY <2>1, <2>2
  <1>10. CASE m.t = "ack" /\ receiveRequestAck(k, m.q)
    <2>1. CASE ServerKnows(k, m.q)
      <3> DEFINE x == stream[k].acked \cup {m.q}
                 u == [stream[k] EXCEPT !.acked = x]
      <3>1. /\ stream' = [stream EXCEPT ![k] = u] /\ net' = PopUp(k)
            /\ UNCHANGED <<client, call, expired, blamed>>
        BY <1>10, <2>1 DEF receiveRequestAck
      <3>2. x \in SUBSET ServerCalls
        BY <1>0, <1>2, <1>10 DEF Streams
      <3> HIDE DEF x
      <3>3. /\ u \in Streams /\ u.stage = stream[k].stage /\ u.queue = stream[k].queue
            /\ u.running = stream[k].running /\ u.late = stream[k].late
        BY <1>0, <3>2, StreamField, ZenonT(60)
      <3> HIDE DEF u
      <3> QED BY <1>0, <1>3, <3>1, <3>3, NoteStep
    <2>2. CASE ~ServerKnows(k, m.q)
      <3>1. closeStreamWithError(k, m.q)
        BY <1>10, <2>2 DEF receiveRequestAck
      <3> QED BY <1>4, <1>10, <2>2, <3>1, StreamErrorStep
    <2> QED BY <2>1, <2>2
  <1> QED BY <1>1, <1>6, <1>7, <1>8, <1>9, <1>10

\* The steps of the server but the timer of its own requests.
LEMMA ServerTokenStep ==
  ASSUME SafeInv, TokenInv, NEW k \in Conns, ServerNext(k)
  PROVE  TokenStep
  <1>0. stream[k] \in Streams /\ blamed \ {0} \subseteq expired /\ call \in [Calls -> Outcomes]
    BY Types DEF TokenInv, LateAnswersAreForgiven
  <1>1. CASE ActivationFails(k) \/ closeStreamGracefully(k) \/ ServerLosesSocket(k)
    <2>1. cleanupStream(k, "disconnect", net, call) /\ blamed' = blamed /\ "disconnect" \in Causes
      BY <1>1 DEF ActivationFails, closeStreamGracefully, ServerLosesSocket, Causes
    <2> QED BY <1>0, <2>1, CleanupStep
  <1>2. CASE handleStreamEstablished(k)
    <2>1. PICK old : Current = old
      OBVIOUS
    <2> QED BY <1>2, <2>1, EstablishStep
  <1>3. ASSUME NEW q \in ServerCalls, ServerInvokes(k, q) PROVE TokenStep
    <2>0. q \in Calls /\ call[q].st = "new" /\ UNCHANGED <<client, stream, expired, blamed>>
      BY <1>3, Numbers DEF ServerInvokes, Fresh
    <2>1. CASE call' = Set(q, "refused") /\ UNCHANGED net
      BY <2>0, <2>1, RefuseStep
    <2>2. CASE /\ stream[k].stage \in {"handlers", "activated", "open"}
               /\ call' = [call EXCEPT ![q] = [call[q] EXCEPT !.st = "sent", !.conn = k]]
               /\ net' = Down(net, k, Msg("request", q))
      BY <2>0, <2>2, ServerSendStep
    <2> QED BY <1>3, <2>1, <2>2 DEF ServerInvokes
  <1>4. ASSUME NEW q \in ServerCalls, ServerTombstoneExpires(k, q) PROVE TokenStep
    <2> DEFINE x == stream[k].late \ {q}
               u == [stream[k] EXCEPT !.late = x]
    <2>1. /\ stream' = [stream EXCEPT ![k] = u] /\ expired' = expired \cup {q}
          /\ UNCHANGED <<client, net, call, blamed>>
      BY <1>4 DEF ServerTombstoneExpires
    <2>2. x \in SUBSET ServerCalls
      BY <1>0 DEF Streams
    <2> HIDE DEF x
    <2>3. /\ u \in Streams /\ u.stage = stream[k].stage /\ u.queue = stream[k].queue
          /\ u.running = stream[k].running /\ u.late = x
      BY <1>0, <2>2, StreamField
    <2> HIDE DEF u
    <2>4. /\ expired \subseteq expired' /\ stream[k].late \cup expired \subseteq u.late \cup expired'
          /\ blamed' \ {0} \subseteq expired'
      BY <1>0, <2>1, <2>3 DEF x
    <2>5. Fewer(net[k].c2s, net'[k].c2s) /\ Fewer(net[k].s2c, net'[k].s2c)
      BY <2>1 DEF Fewer, Less
    <2> QED BY <1>0, <2>1, <2>3, <2>4, <2>5, NoteStep
  <1> QED
    BY <1>1, <1>2, <1>3, <1>4, StagesStep, OpenStep, ServerReceivesStep, EndStep
    DEF ServerNext

\* The timer of a server request.
LEMMA ServerTimeoutStep ==
  ASSUME SafeInv, TokenInv, NEW q \in ServerCalls, ServerCallTimesOut(q)
  PROVE  TokenStep
  <1>k. PICK k : call[q].conn = k
    OBVIOUS
  <1>0. /\ k \in Conns /\ call[q].st = "sent" /\ q \in Calls /\ blamed' = blamed
        /\ blamed \ {0} \subseteq expired /\ "timeout" \in Causes /\ "indeterminate" \in Statuses
        /\ stream[k] \in Streams
    BY <1>k, TokensWait, Numbers, Types
    DEF ServerCallTimesOut, Waits, TokenInv, LateAnswersAreForgiven, Causes, Statuses
  <1>1. CASE Acks /\ q \notin stream[k].acked
    <2>1. cleanupStream(k, "timeout", net, call)
      BY <1>k, <1>1 DEF ServerCallTimesOut
    <2> QED BY <1>0, <2>1, CleanupStep
  <1>2. CASE ~(Acks /\ q \notin stream[k].acked)
    <2> DEFINE x == stream[k].late \cup {q}
               u == [stream[k] EXCEPT !.late = x]
    <2>1. /\ call' = Set(q, "indeterminate") /\ stream' = [stream EXCEPT ![k] = u]
          /\ UNCHANGED <<client, net, expired>>
      BY <1>k, <1>2 DEF ServerCallTimesOut
    <2>2. x \in SUBSET ServerCalls
      BY <1>0 DEF Streams
    <2> HIDE DEF x
    <2>3. /\ u \in Streams /\ u.stage = stream[k].stage /\ u.queue = stream[k].queue
          /\ u.running = stream[k].running /\ u.late = x
      BY <1>0, <2>2, StreamField
    <2> HIDE DEF u
    <2>4. /\ \A p \in Calls \ {q} : call'[p] = call[p]
          /\ call'[q].st = "indeterminate" /\ call'[q].conn = call[q].conn /\ call'[q].runs = call[q].runs
      BY <1>0, <2>1, Types, CallChanges
    <2>5. call' \in [Calls -> Outcomes]
      <3>1. Set(q, "indeterminate") \in [Calls -> Outcomes]
        BY <1>0, Types, CallField
      <3> QED BY <2>1, <3>1
    <2>6. /\ expired \subseteq expired' /\ stream[k].late \cup expired \subseteq u.late \cup expired'
          /\ blamed' \ {0} \subseteq expired' /\ q \in u.late
      BY <1>0, <2>1, <2>3 DEF x
    <2>7. Fewer(net[k].c2s, net'[k].c2s) /\ Fewer(net[k].s2c, net'[k].s2c)
      BY <2>1 DEF Fewer, Less
    <2>8. \A p \in Calls : \/ call'[p] = call[p]
                           \/ /\ p \in ServerCalls /\ call[p].st = "sent" /\ call[p].conn = k /\ p \in u.late
                              /\ call'[p].st = "indeterminate" /\ call'[p].conn = call[p].conn
                              /\ call'[p].runs = call[p].runs
      BY <1>k, <1>0, <2>4, <2>6
    <2> QED BY <1>0, <2>1, <2>3, <2>5, <2>6, <2>7, <2>8, NoteStep
  <1> QED BY <1>1, <1>2

\* The network loses a connection.
LEMMA BreakStep ==
  ASSUME SafeInv, TokenInv, NEW k \in Conns, NetworkBreaks(k)
  PROVE  TokenStep
  <1> DEFINE r == [net[k] EXCEPT !.health = "broken", !.c2s = <<>>, !.s2c = <<>>]
             u == stream[k]
  <1>1. /\ net' = [net EXCEPT ![k] = r] /\ net[k] \in Links /\ u \in Streams
        /\ UNCHANGED <<client, stream, call, expired, blamed>>
        /\ blamed \ {0} \subseteq expired /\ call \in [Calls -> Outcomes]
    BY Types DEF NetworkBreaks, TokenInv, LateAnswersAreForgiven
  <1>2. r.owner = net[k].owner /\ r.c2s = <<>> /\ r.s2c = <<>>
    BY <1>1 DEF Links
  <1> HIDE DEF r
  <1>3. net'[k] = r /\ \A i \in Conns \ {k} : net'[i] = net[i]
    BY <1>1, Types
  <1>4. Fewer(net[k].c2s, net'[k].c2s) /\ Fewer(net[k].s2c, net'[k].s2c)
    BY <1>1, <1>2, <1>3, FewerFrames DEF Links
  <1>5. stream' = [stream EXCEPT ![k] = u]
    BY <1>1, Types
  <1>6. /\ u.stage = stream[k].stage /\ u.queue = stream[k].queue /\ u.running = stream[k].running
        /\ u.late = stream[k].late
    OBVIOUS
  <1> HIDE DEF u
  <1> QED BY <1>1, <1>2, <1>3, <1>4, <1>5, <1>6, NoteStep

\* Nothing happens.
LEMMA IdleStep ==
  ASSUME SafeInv, TokenInv, UNCHANGED vars
  PROVE  TokenStep
  <1>1. UNCHANGED <<client, net, stream, call, expired, blamed>>
    BY DEF vars
  <1>2. \A i \in Conns : StillCalls(i)
    BY <1>1 DEF StillCalls
  <1>3. \A i \in Conns : Still(i)
    BY <1>1, <1>2, ServerStill
  <1>4. Tokens'
    BY <1>3, TokensStep DEF TokenInv
  <1> QED BY <1>1, <1>4 DEF TokenStep, TokenInv, Receipted, CallsMove, LateAnswersAreForgiven

\* Every step keeps each request in one place, and moves the calls as they may move.
LEMMA TokenNext ==
  ASSUME SafeInv, TokenInv, [Next]_vars
  PROVE  TokenStep
  BY IdleStep, ClientTokenStep, ServerTokenStep, BreakStep, ServerTimeoutStep DEF Next

\* At the start no request is anywhere.
LEMMA TokenInit == Init => TokenInv
  <1> SUFFICES ASSUME Init PROVE TokenInv
    OBVIOUS
  <1>1. /\ \A c \in Clients : client[c].conn = 0 /\ client[c].unacked = {}
        /\ \A k \in Conns : net[k].c2s = <<>> /\ net[k].s2c = <<>> /\ net[k].owner = (CHOOSE c \in Clients : TRUE)
        /\ \A k \in Conns : stream[k].queue = <<>> /\ stream[k].running = {} /\ stream[k].stage = "none"
        /\ \A q \in Calls : call[q].st = "new" /\ call[q].conn = 0 /\ call[q].runs = 0
        /\ blamed = {}
    BY DEF Init
  <1>2. \A k \in Conns : net[k].owner \in Clients /\ k # 0
    BY <1>1, SrpcAssumption, Numbers
  <1>3. \A k \in Conns : ~Held(k)
    BY <1>1, <1>2 DEF Held, OnSocket, Owner
  <1>4. ASSUME NEW k \in Conns PROVE TokensAt(k)
    <2>1. ASSUME NEW q \in ClientCalls PROVE ClientToken(k, q)
      <3>1. q \in Calls /\ ~Queued(<<>>, q) /\ Once(<<>>, q)
        BY Numbers DEF Queued, Once
      <3> QED BY <1>1, <3>1, NoFrame DEF ClientToken
    <2>2. ASSUME NEW q \in ServerCalls PROVE ServerToken(k, q)
      <3>1. q \in Calls /\ ~Handling(k, q)
        BY <1>3, Numbers DEF Handling
      <3> QED BY <1>1, <1>2, <3>1, NoFrame DEF ServerToken
    <2> QED BY <2>1, <2>2 DEF TokensAt
  <1>5. Receipted /\ LateAnswersAreForgiven /\ \A q \in Calls : Counted(q)
    BY <1>1 DEF Receipted, LateAnswersAreForgiven, Counted
  <1> QED BY <1>4, <1>5 DEF TokenInv, Tokens

-----------------------------------------------------------------------------
(***************************************************************************)
(* The theorems.                                                           *)
(***************************************************************************)

\* The inductive invariant: types, control, and one place for every request.
IInv == SafeInv /\ TokenInv

\* Every reachable state satisfies it.
LEMMA Invariance == Spec => []IInv
  <1>1. Init => IInv
    BY SafeInit, TokenInit DEF IInv
  <1>2. IInv /\ [Next]_vars => IInv'
    BY SafeStep, TokensWait, TokenNext, TokenInvStep DEF IInv
  <1> QED BY <1>1, <1>2, PTL DEF Spec

\* Nothing but a fault or an intervention uses up the bound on them.
LEMMA FaultsStep ==
  ASSUME [Next]_vars
  PROVE  faults' = faults \/ (faults < MaxFaults /\ faults' = faults + 1)
  <1>1. ASSUME NEW c \in Clients, ClientNext(c)
        PROVE  faults' = faults \/ (faults < MaxFaults /\ faults' = faults + 1)
    BY <1>1, ZenonT(60) DEF ClientNext, connect, queueReconnectFires, disconnect, ConnectTimeout, ClientLosesSocket,
                PongTimeout, SocketOpens, ClientReceives, ClientOverflows, handleServerRequestEnds,
                acknowledgeServerRequest, ClientInvokes, ClientCallTimesOut, ClientTombstoneExpires, Fault, CanFault
  <1>2. ASSUME NEW k \in Conns, ServerNext(k) \/ NetworkBreaks(k)
        PROVE  faults' = faults \/ (faults < MaxFaults /\ faults' = faults + 1)
    BY <1>2 DEF ServerNext, verifyClientRefuses, handleStreamEstablished, SendHello, activateStream,
                ActivationFails, openClientRequests, ServerReceives, ServerLosesSocket, closeStreamGracefully,
                handleClientRequestEnds, ServerInvokes, ServerTombstoneExpires, NetworkBreaks, Fault, CanFault
  <1>3. ASSUME NEW q \in ServerCalls, ServerCallTimesOut(q)
        PROVE  faults' = faults
    BY <1>3 DEF ServerCallTimesOut
  <1>4. CASE UNCHANGED vars
    BY <1>4 DEF vars
  <1> QED BY <1>1, <1>2, <1>3, <1>4, ZenonT(60) DEF Next

\* The type invariant of the model: among others, a client holds a WebSocket in
\* exactly the phases in which SrpcClient has one.
THEOREM TypeCorrect == Spec => []TypeOK
  <1>1. Init => faults \in 0..MaxFaults
    BY SrpcAssumption DEF Init
  <1>2. faults \in 0..MaxFaults /\ [Next]_vars => (faults \in 0..MaxFaults)'
    BY FaultsStep, SrpcAssumption
  <1>3. IInv /\ faults \in 0..MaxFaults => TypeOK
    <2> SUFFICES ASSUME IInv, faults \in 0..MaxFaults PROVE TypeOK
      OBVIOUS
    <2>1. SafeInv /\ Sockets /\ reg \in [pending : 0..MaxConns, active : 0..MaxConns]
      BY DEF IInv, SafeInv, ControlInv, TypeInv
    <2>2. ASSUME NEW c \in Clients
          PROVE  /\ client[c].conn \in 0..MaxConns
                 /\ client[c].phase \in {"idle", "closed", "conflict", "opening", "open", "activating", "connected"}
                 /\ client[c].conn = 0 <=> client[c].phase \in {"idle", "closed", "conflict"}
      <3>1. client[c] \in Peers
        BY <2>1, Types
      <3> QED BY <2>1, <3>1 DEF Sockets, Peers, Phases
    <2>3. ASSUME NEW k \in Conns PROVE stream[k].stage \in Registered \cup {"none", "auth", "refused", "revoked"}
      <3>1. stream[k] \in Streams
        BY <2>1, Types
      <3> QED BY <3>1 DEF Streams, Stages
    <2> QED BY <2>1, <2>2, <2>3 DEF TypeOK
  <1> QED BY <1>1, <1>2, <1>3, Invariance, PTL DEF Spec

\* However connections, supersessions and activations interleave, a stream that is
\* still registered is the current stream of its client ID, in the map that fits
\* its stage.
THEOREM LiveStreamIsCurrent == Spec => []EveryLiveStreamIsCurrent
  <1>1. IInv => EveryLiveStreamIsCurrent
    BY DEF IInv, SafeInv, ControlInv
  <1> QED BY <1>1, Invariance, PTL

\* A client that considers itself connected is published by the server, or the
\* news of the end is on its way, or the connection is lost.
THEOREM ConnectedClientIsPublished == Spec => []ConnectedIsPublished
  <1>1. IInv => ConnectedIsPublished
    <2> SUFFICES ASSUME IInv, NEW c \in Clients, NEW k, client[c].conn = k,
                        client[c].phase = "connected", net[k].health = "ok"
                 PROVE  reg.active = k \/ \E i \in DOMAIN net[k].s2c : net[k].s2c[i].t = "close"
      BY DEF ConnectedIsPublished
    <2>1. SafeInv /\ Announced /\ Told /\ EveryLiveStreamIsCurrent
      BY DEF IInv, SafeInv, ControlInv
    <2>2. k \in Conns /\ net[k].owner = c
      BY <2>1, SocketType
    <2>3. stream[k].stage \in {"activated", "open", "revoked"} /\ OnSocket(Owner(k), k)
      BY <2>1, <2>2 DEF Announced, Published, OnSocket, Owner
    <2> QED BY <2>1, <2>2, <2>3 DEF EveryLiveStreamIsCurrent, Told, Has
  <1> QED BY <1>1, Invariance, PTL

\* No order of closes, errors, timeouts and connect() calls leaves a client that
\* should reconnect without its timer.
THEOREM ClientIsNeverStranded == Spec => []NeverStranded
  <1>1. IInv => NeverStranded
    BY DEF IInv, SafeInv, ControlInv
  <1> QED BY <1>1, Invariance, PTL

\* A late reply or receipt finds its request or its tombstone, so that a connection
\* is closed for an unknown request ID only if a tombstone has expired.
THEOREM LateAnswerIsForgiven == Spec => []LateAnswersAreForgiven
  <1>1. IInv => LateAnswersAreForgiven
    BY DEF IInv, TokenInv
  <1> QED BY <1>1, Invariance, PTL

\* What the invariant says of a single call: its handler starts at most once, never
\* for a call that was refused, and it has started for a call with a result.
StartsAtMostOnce ==
  \A q \in Calls : /\ call[q].runs <= 1
                   /\ call[q].st \in {"new", "refused"} => call[q].runs = 0
                   /\ call[q].st = "result" => call[q].runs = 1

\* Neither reconnection, supersession, late frames nor the queue before activation
\* makes invoke() run its handler twice, or report a request that ran as refused.
THEOREM HandlerStartsAtMostOnce == Spec => []StartsAtMostOnce
  <1>1. IInv => StartsAtMostOnce
    BY DEF IInv, TokenInv, Counted, StartsAtMostOnce
  <1> QED BY <1>1, Invariance, PTL

\* The safety part of the contract of an invocation: every step of the two peers,
\* of the network and of the timers is a step of CallContract, or changes no call.
THEOREM CallsKeepTheContract == Spec => Contract!Init /\ [][Contract!Next]_(Contract!vars)
  <1>1. Init => Contract!Init
    <2> SUFFICES ASSUME Init PROVE Contract!Init
      OBVIOUS
    <2>1. \A q \in Calls : call[q].st = "new" /\ call[q].runs = 0
      BY DEF Init
    <2> QED BY <2>1 DEF Contract!Init
  <1>2. IInv /\ [Next]_vars => [Contract!Next]_(Contract!vars)
    <2> SUFFICES ASSUME IInv, [Next]_vars PROVE Contract!Next
      OBVIOUS
    <2>1. CallsMove
      BY TokenNext DEF IInv, TokenStep
    <2>2. CASE \E q \in Calls :
                  /\ \A p \in Calls \ {q} : call'[p] = call[p]
                  /\ call'[q].runs = call[q].runs
                  /\ \/ call[q].st = "new" /\ call'[q].st = "refused"
                     \/ call[q].st = "new" /\ call'[q].st = "sent" /\ call'[q].conn # 0
                     \/ call[q].st = "sent" /\ call[q].runs = 1 /\ call'[q].st = "result"
      <3>1. PICK q \in Calls :
                  /\ \A p \in Calls \ {q} : call'[p] = call[p]
                  /\ call'[q].runs = call[q].runs
                  /\ \/ call[q].st = "new" /\ call'[q].st = "refused"
                     \/ call[q].st = "new" /\ call'[q].st = "sent" /\ call'[q].conn # 0
                     \/ call[q].st = "sent" /\ call[q].runs = 1 /\ call'[q].st = "result"
        BY <2>2
      <3>2. [p \in Calls |-> call'[p].runs] = [p \in Calls |-> call[p].runs]
        <4>1. \A p \in Calls : call'[p].runs = call[p].runs
          BY <3>1
        <4> QED BY <4>1
      <3>3. [p \in Calls |-> call'[p].st]
              = [[p \in Calls |-> call[p].st] EXCEPT ![q] = call'[q].st]
        <4>1. \A p \in Calls : call'[p].st = IF p = q THEN call'[q].st ELSE call[p].st
          BY <3>1
        <4> QED BY <4>1
      <3>4. CASE call[q].st = "new" /\ call'[q].st = "refused"
        <4>1. Contract!Refuse(q)
          BY <3>2, <3>3, <3>4 DEF Contract!Refuse
        <4> QED BY <4>1 DEF Contract!Next
      <3>5. CASE call[q].st = "new" /\ call'[q].st = "sent"
        <4>1. Contract!Send(q)
          BY <3>2, <3>3, <3>5 DEF Contract!Send
        <4> QED BY <4>1 DEF Contract!Next
      <3>6. CASE call[q].st = "sent" /\ call[q].runs = 1 /\ call'[q].st = "result"
        <4>1. Contract!Result(q)
          BY <3>2, <3>3, <3>6 DEF Contract!Result
        <4> QED BY <4>1 DEF Contract!Next
      <3> QED BY <3>1, <3>4, <3>5, <3>6
    <2>3. CASE \A q \in Calls :
                  /\ call'[q].st = call[q].st \/ (call[q].st = "sent" /\ call'[q].st = "indeterminate")
                  /\ \/ call'[q].runs = call[q].runs
                     \/ call[q].runs = 0 /\ call'[q].runs = 1 /\ call[q].st \in {"sent", "indeterminate"}
      <3>1. PICK Q \in SUBSET Calls :
              \A q \in Calls : q \in Q <=> call[q].st = "sent" /\ call'[q].st = "indeterminate"
        <4> WITNESS {q \in Calls : call[q].st = "sent" /\ call'[q].st = "indeterminate"}
                      \in SUBSET Calls
        <4> QED OBVIOUS
      <3>2. PICK R \in SUBSET Calls :
              \A q \in Calls : q \in R <=> call'[q].runs # call[q].runs
        <4> WITNESS {q \in Calls : call'[q].runs # call[q].runs} \in SUBSET Calls
        <4> QED OBVIOUS
      <3>3. [q \in Calls |-> call'[q].st]
              = [q \in Calls |-> IF q \in Q THEN "indeterminate" ELSE [p \in Calls |-> call[p].st][q]]
        <4>1. \A q \in Calls : call'[q].st = IF q \in Q THEN "indeterminate" ELSE call[q].st
          BY <2>3, <3>1
        <4> QED BY <4>1
      <3>4. [q \in Calls |-> call'[q].runs]
              = [q \in Calls |-> IF q \in R THEN 1 ELSE [p \in Calls |-> call[p].runs][q]]
        <4>1. \A q \in Calls : call'[q].runs = IF q \in R THEN 1 ELSE call[q].runs
          BY <2>3, <3>2
        <4> QED BY <4>1
      <3>5. /\ \A q \in Q : [p \in Calls |-> call[p].st][q] \in {"new", "sent"}
            /\ \A q \in R : /\ [p \in Calls |-> call[p].runs][q] = 0
                           /\ [p \in Calls |-> call[p].st][q] \in {"sent", "indeterminate"}
        BY <2>3, <3>1, <3>2
      <3>6. Contract!Transport(Q, R)
        BY <3>3, <3>4, <3>5 DEF Contract!Transport
      <3> QED BY <3>6 DEF Contract!Next
    <2> QED BY <2>1, <2>2, <2>3 DEF CallsMove
  <1> QED BY <1>1, <1>2, Invariance, PTL DEF Spec
=============================================================================
