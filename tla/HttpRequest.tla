---------------------------- MODULE HttpRequest -----------------------------
(* The body of an HttpRequest: a workflow listener, middleware, the router and *)
(* the controller read it as a buffer, as a stream or as the request itself,   *)
(* at the same time or after each other, through size limits and gunzip.       *)
EXTENDS Naturals, FiniteSets, SequencesExt

CONSTANTS Readers, MaxBodyBytes, MaxCompressedBodyBytes,
          MaxBytes      \* bound on the size of a body

VARIABLES
    from,           \* "memory" (a cached body) or "stream" (the incoming message)
    encoding,       \* "identity", "gzip" or "other"
    rawBytes, bytes,\* size as sent and after decoding; -1 stands for a body that does not decode
    declared,       \* a content-length was sent
    body,           \* "none", "raw" or "decoded"
    bodyRead,       \* the promise: "none", "reading", "reading-raw", "read", or why it failed
    streamAttached,
    bodyGuardBypass,
    reader          \* per reader: "idle", what it waits for, or what it got

vars == <<from, encoding, rawBytes, bytes, declared, body, bodyRead, streamAttached, bodyGuardBypass, reader>>
request_vars == <<from, encoding, rawBytes, bytes, declared>>

Failures == {"unsupported", "too-large", "undecodable", "consumed"}

Init == /\ from \in {"memory", "stream"} /\ encoding \in {"identity", "gzip", "other"} /\ declared \in BOOLEAN
        /\ rawBytes \in 0..MaxBytes /\ bytes \in IF encoding = "gzip" THEN 0..(MaxBytes + 1) ELSE {rawBytes}
        /\ body = (IF from = "memory" THEN "raw" ELSE "none") /\ bodyRead = "none"
        /\ streamAttached = FALSE /\ bodyGuardBypass = FALSE /\ reader = [r \in Readers |-> "idle"]

\* A body that gunzip refuses is one whose decoded size is out of range.
Undecodable == encoding = "gzip" /\ bytes > MaxBytes

-----------------------------------------------------------------------------
\* createGuardedRequestBodyStream(): what it throws at once,
ThrownNow ==
    LET limit == IF encoding = "identity" THEN MaxBodyBytes ELSE MaxCompressedBodyBytes
    IN  IF encoding = "other" THEN "unsupported" ELSE IF declared /\ rawBytes > limit THEN "too-large" ELSE "none"

\* ByteLimitTransform: the bytes that went through it are more than its maximum.
OverLimit(size, maxBytes) == size > maxBytes

\* and what its stream ends with: ByteLimitTransform before and after gunzip.
GuardedOutcome ==
    IF encoding = "identity" THEN (IF OverLimit(rawBytes, MaxBodyBytes) THEN "too-large" ELSE "decoded")
    ELSE IF OverLimit(rawBytes, MaxCompressedBodyBytes) THEN "too-large"
    ELSE IF Undecodable THEN "undecodable" ELSE IF OverLimit(bytes, MaxBodyBytes) THEN "too-large" ELSE "decoded"

Gets(r, what) == reader' = [reader EXCEPT ![r] = what]

\* Mutant: the buffer is guarded and decoded again whenever it is read.
BufferReadyBypassed == bodyGuardBypass

\* The cached body is what the reader is to have.
BufferReady == bodyGuardBypass \/ body = "decoded"

\* readBodyBuffer()
ReadBodyBuffer(r) ==
    /\ reader[r] = "idle" /\ UNCHANGED <<request_vars, body, bodyGuardBypass>>
    /\ IF body # "none" /\ BufferReady THEN Gets(r, body) /\ UNCHANGED <<bodyRead, streamAttached>>
       ELSE IF bodyRead # "none" THEN Gets(r, "buffer") /\ UNCHANGED <<bodyRead, streamAttached>>
       ELSE IF body = "none" /\ streamAttached THEN Gets(r, "consumed") /\ UNCHANGED <<bodyRead, streamAttached>>
       ELSE /\ streamAttached' = (streamAttached \/ body = "none")
            /\ IF ThrownNow # "none" /\ ~bodyGuardBypass THEN Gets(r, ThrownNow) /\ UNCHANGED bodyRead
               ELSE Gets(r, "buffer") /\ bodyRead' = IF bodyGuardBypass THEN "reading-raw" ELSE "reading"

\* readStreamBody(): the promise settles for everybody who waits for it.
BufferRead ==
    /\ bodyRead \in {"reading", "reading-raw"} /\ UNCHANGED <<request_vars, streamAttached, bodyGuardBypass>>
    /\ LET outcome == IF bodyRead = "reading-raw" THEN "raw" ELSE GuardedOutcome
       IN  /\ bodyRead' = (IF outcome \in Failures THEN outcome ELSE "read")
           /\ body' = IF outcome \in Failures THEN body ELSE outcome
           /\ reader' = [r \in Readers |-> IF reader[r] = "buffer" THEN outcome ELSE reader[r]]

\* Readers of a promise that is settled.
BufferKnown(r) ==
    /\ reader[r] = "buffer" /\ bodyRead \notin {"none", "reading", "reading-raw"}
    /\ Gets(r, IF bodyRead = "read" THEN body ELSE bodyRead)
    /\ UNCHANGED <<request_vars, body, bodyRead, streamAttached, bodyGuardBypass>>

\* The stream getter, and _read() of the request: a stream over the cached body, or the one over
\* the incoming message.
OpenStream(r) ==
    /\ reader[r] = "idle" /\ UNCHANGED <<request_vars, body, bodyRead, bodyGuardBypass>>
    /\ IF body # "none" /\ BufferReady THEN Gets(r, body) /\ UNCHANGED streamAttached
       ELSE IF body = "none" /\ streamAttached THEN Gets(r, "consumed") /\ UNCHANGED streamAttached
       ELSE /\ streamAttached' = (streamAttached \/ body = "none")
            /\ Gets(r, IF bodyGuardBypass THEN "raw" ELSE IF ThrownNow # "none" THEN ThrownNow
                       ELSE IF body = "decoded" THEN "stream-again" ELSE "stream")

\* gunzip refuses a body that is decoded already.
StreamRead(r) ==
    /\ reader[r] \in {"stream", "stream-again"}
    /\ Gets(r, IF reader[r] = "stream-again" /\ encoding = "gzip" THEN "undecodable" ELSE GuardedOutcome)
    /\ UNCHANGED <<request_vars, body, bodyRead, streamAttached, bodyGuardBypass>>

\* enableBodyGuardBypass(), for a route that takes an HttpRequestStream.
EnableBypass == /\ ~bodyGuardBypass /\ bodyGuardBypass' = TRUE
                /\ UNCHANGED <<request_vars, body, bodyRead, streamAttached, reader>>

Next == \/ BufferRead \/ EnableBypass
        \/ \E r \in Readers : ReadBodyBuffer(r) \/ BufferKnown(r) \/ OpenStream(r) \/ StreamRead(r)

Spec == Init /\ [][Next]_vars

-----------------------------------------------------------------------------
\* Nobody is given a body over the limits or one that is still encoded unless the guard was
\* bypassed, and once the body was read every reader that asks for it has it: it is never decoded
\* twice (readBodyBuffer(), stream, _read()).
ReadersAgree ==
    /\ \A r \in Readers : reader[r] = "decoded" => bytes <= MaxBodyBytes /\ ~Undecodable
    /\ (\E r \in Readers : reader[r] = "raw") => bodyGuardBypass
    /\ body = "decoded" => \A r \in Readers : reader[r] \notin Failures \ {"consumed"}

-----------------------------------------------------------------------------
(* The routes of HttpRouter: controllers register theirs one after the other,  *)
(* a route is placed in the dispatch list of its method by specificity, and a  *)
(* request goes to the first route of the list that matches its path.          *)

CONSTANTS Controllers, Methods,
          RoutesOf,     \* per controller: its routes in order, [method, segments]
          Param,        \* a segment that starts with a colon
          Literals,     \* the values of the segments of a request path, "" among them
          MaxSegments   \* bound on the length of a request path

VARIABLES
    routes,         \* registered routes in order
    dispatchRoutes, \* per method: its routes in the order of dispatch
    routePatterns,  \* the patterns taken: [method, segments]
    restricted,     \* restrictedControllers
    tried           \* controllers whose registration was tried

varsRoutes == <<routes, dispatchRoutes, routePatterns, restricted, tried>>

InitRoutes == /\ routes = <<>> /\ dispatchRoutes = [m \in Methods |-> <<>>] /\ routePatterns = {}
              /\ restricted = Controllers /\ tried = {}

-----------------------------------------------------------------------------
Rank(segment) == IF segment = Param THEN 1 ELSE 0

\* left goes before right: at the first position where their shapes differ a literal beats a
\* parameter; among equal shapes the longer route is first.
Before(left, right) ==
    LET shared == {i \in DOMAIN left \cap DOMAIN right : Rank(left[i]) # Rank(right[i])}
    IN  IF shared # {} THEN Rank(left[Min(shared)]) = 0 ELSE Len(left) > Len(right)

\* Mutant: routes are dispatched in the order of their registration.
InsertDispatchRouteLast(list, route) == Append(list, route)

\* insertDispatchRoute(): before the first route that it goes before.
InsertDispatchRoute(list, route) ==
    LET later == {i \in DOMAIN list : Before(route.segments, list[i].segments)}
    IN  InsertAt(list, IF later = {} THEN Len(list) + 1 ELSE Min(later), route)

Pattern(route) == [method |-> route.method, segments |-> route.segments]

\* addRoute(): the router after a route of the controller is added, or its ambiguity has thrown.
AddRoute(router, route) ==
    IF router.threw \/ Pattern(route) \in router.patterns THEN [router EXCEPT !.threw = TRUE]
    ELSE [router EXCEPT !.routes = Append(@, route), !.patterns = @ \cup {Pattern(route)},
                        !.dispatch = [@ EXCEPT ![route.method] = InsertDispatchRoute(@, route)]]

\* compilePath() and the route plans of a controller.
Plans(c) == [i \in DOMAIN RoutesOf[c] |->
                [method |-> RoutesOf[c][i].method, segments |-> RoutesOf[c][i].segments, controller |-> c]]

\* registerController(): the routes before an ambiguous one stay registered.
RegisterController(c) ==
    /\ c \notin tried /\ tried' = tried \cup {c} /\ UNCHANGED restricted
    /\ IF c \notin restricted THEN UNCHANGED <<routes, dispatchRoutes, routePatterns>>
       ELSE LET after == FoldLeft(AddRoute, [routes |-> routes, dispatch |-> dispatchRoutes,
                                             patterns |-> routePatterns, threw |-> FALSE], Plans(c))
            IN  /\ routes' = after.routes /\ dispatchRoutes' = after.dispatch /\ routePatterns' = after.patterns

\* rebuildRouteIndexes()
Rebuilt(kept) ==
    FoldLeft(LAMBDA index, route : [index EXCEPT ![route.method] = InsertDispatchRoute(@, route)],
             [m \in Methods |-> <<>>], kept)

RestrictControllers(kept) ==
    /\ restricted' = kept
    /\ routes' = SelectSeq(routes, LAMBDA route : route.controller \in kept)
    /\ routePatterns' = {Pattern(routes'[i]) : i \in DOMAIN routes'}
    /\ dispatchRoutes' = Rebuilt(routes') /\ UNCHANGED tried

NextRoutes == \/ \E c \in Controllers : RegisterController(c)
              \/ \E kept \in SUBSET Controllers : RestrictControllers(kept)

SpecRoutes == InitRoutes /\ [][NextRoutes]_varsRoutes

-----------------------------------------------------------------------------
\* The regular expression of a route on the segments of a path: a parameter takes anything but
\* an empty segment.
Matches(route, path) ==
    /\ Len(route.segments) = Len(path)
    /\ \A i \in DOMAIN path : IF route.segments[i] = Param THEN path[i] # "" ELSE route.segments[i] = path[i]

\* matchRoutePath(): the path, or the path without its trailing slash.
MatchRoutePath(route, path) ==
    Matches(route, path) \/ (path # <<"">> /\ Last(path) = "" /\ Matches(route, Front(path)))

\* match(): the first route of the list that matches.
Match(list, path) == SelectInSeq(list, LAMBDA route : MatchRoutePath(route, path))

Paths == UNION {[1..n -> Literals] : n \in 1..MaxSegments}

\* Whatever the order in which controllers were registered, and whatever was restricted or
\* refused as ambiguous in between, a request that some route of its method matches goes to a
\* route that beats every other one that matches: at the first segment where the two differ in
\* shape it is the one with the literal (insertDispatchRoute(), rebuildRouteIndexes()).
MostSpecificWins ==
    \A m \in Methods, path \in Paths :
        LET list  == dispatchRoutes[m]
            index == Match(list, path)
            found == {i \in DOMAIN routes : routes[i].method = m /\ MatchRoutePath(routes[i], path)}
        IN  /\ (index = 0) <=> (found = {})
            /\ index # 0 =>
                 \E best \in found :
                    /\ routes[best] = list[index]
                    /\ \A other \in found \ {best} :
                          \E i \in DOMAIN routes[best].segments :
                            /\ routes[best].segments[i] # Param /\ routes[other].segments[i] = Param
                            /\ \A j \in 1..(i - 1) : Rank(routes[best].segments[j]) = Rank(routes[other].segments[j])
=============================================================================
