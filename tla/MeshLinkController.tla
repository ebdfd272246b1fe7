------------------------- MODULE MeshLinkController -------------------------
(***************************************************************************)
(* route() and verifyPeerMembership() of the mesh link controller          *)
(* (src/src/services/mesh-client/mesh-srpc-link-controller.ts): a frame of *)
(* an authenticated peer is applied only if the peer is a live member of   *)
(* the mesh.  A frame with a side effect needs an observation of its own;  *)
(* frames of an established byte stream share a lookup under way and a     *)
(* cached result.                                                          *)
(*                                                                         *)
(* One peer is followed; it leaves the mesh at most once, because a        *)
(* process that starts again has another process ID.                       *)
(***************************************************************************)
EXTENDS Integers, FiniteSets

CONSTANTS
    Control, Stream,    \* frames that need their own observation, and others
    Ttl,                \* PeerMembershipTtlMs
    Latency,            \* bound: how long a lookup stays unanswered
    MaxTime             \* bound

Frames == Control \cup Stream

VARIABLES
    now, leftAt,        \* leftAt: when the peer left, or 0
    lookup,             \* lookup[f]: the lookup frame f began
    verifying,          \* verifyingPeers: the frame whose lookup is shared, or 0
    verifiedAt,         \* verifiedPeers, or 0
    seenAt,             \* when the observation behind verifiedAt was made
    frame               \* frame[f]: its state, arrival, whose lookup it awaits

vars == <<now, leftAt, lookup, verifying, verifiedAt, seenAt, frame>>

NoLookup == [state |-> "none", began |-> 0, seen |-> 0]
Unsent == [state |-> "unsent", at |-> 0, awaits |-> 0, proof |-> 0, done |-> 0]

Init ==
    /\ now = 1 /\ leftAt = 0
    /\ lookup = [f \in Frames |-> NoLookup]
    /\ verifying = 0 /\ verifiedAt = 0 /\ seenAt = 0
    /\ frame = [f \in Frames |-> Unsent]

\* Mutant: a frame with a side effect waits for a lookup under way as well.
SharesAny(f) == verifying # 0

\* Whether the frame waits for the lookup under way.
Shares(f) == f \in Stream /\ verifying # 0

Cached(f) == f \in Stream /\ verifiedAt # 0 /\ verifiedAt >= now - Ttl

\* The frame arrives: a cached result, the lookup under way or one of its own.
Arrive(f) ==
    /\ frame[f].state = "unsent"
    /\ IF Cached(f)
       THEN /\ frame' = [frame EXCEPT ![f] =
                           [state |-> "applied", at |-> now, awaits |-> 0,
                            proof |-> seenAt, done |-> now]]
            /\ UNCHANGED <<lookup, verifying>>
       ELSE LET own == IF Shares(f) THEN verifying ELSE f IN
            /\ frame' = [frame EXCEPT ![f] =
                           [state |-> "waiting", at |-> now, awaits |-> own,
                            proof |-> 0, done |-> 0]]
            /\ lookup' = IF own = f
                         THEN [lookup EXCEPT ![f] = [state |-> "sent", began |-> now, seen |-> 0]]
                         ELSE lookup
            /\ verifying' = own
    /\ UNCHANGED <<now, leftAt, verifiedAt, seenAt>>

\* getNodes(): ACTIVE_MEMBERS, and then the records of the members.
ActiveMembers(f) ==
    /\ lookup[f].state = "sent"
    /\ lookup' = [lookup EXCEPT ![f].state = "members",
                                ![f].seen = IF leftAt = 0 THEN now ELSE 0]
    /\ UNCHANGED <<now, leftAt, verifying, verifiedAt, seenAt, frame>>

MemberRecords(f) ==
    /\ lookup[f].state = "members"
    /\ lookup' = [lookup EXCEPT ![f].state = "answered",
                                ![f].seen = IF leftAt = 0 THEN @ ELSE 0]
    /\ UNCHANGED <<now, leftAt, verifying, verifiedAt, seenAt, frame>>

\* The lookup ends; the frames that wait for it are applied or refused.
\* The commands of one connection are answered in order.
Verified(f) ==
    /\ lookup[f].state = "answered"
    /\ LET member == lookup[f].seen # 0 IN
       /\ lookup' = [lookup EXCEPT ![f].state = "done"]
       /\ verifiedAt' = IF member THEN now ELSE verifiedAt
       /\ seenAt' = IF member THEN lookup[f].seen ELSE seenAt
       /\ verifying' = IF verifying = f THEN 0 ELSE verifying
       /\ frame' = [g \in Frames |->
            IF frame[g].state = "waiting" /\ frame[g].awaits = f
            THEN [frame[g] EXCEPT !.state = IF member THEN "applied" ELSE "refused",
                                  !.proof = lookup[f].seen, !.done = now]
            ELSE frame[g]]
    /\ UNCHANGED <<now, leftAt>>

\* The peer deregisters, or its heartbeat expires.
Leave ==
    /\ leftAt = 0 /\ leftAt' = now
    /\ UNCHANGED <<now, lookup, verifying, verifiedAt, seenAt, frame>>

Tick ==
    /\ now < MaxTime /\ now' = now + 1
    /\ \A f \in Frames :
         lookup[f].state \in {"sent", "members", "answered"} => now < lookup[f].began + Latency
    /\ UNCHANGED <<leftAt, lookup, verifying, verifiedAt, seenAt, frame>>

Next ==
    \/ \E f \in Frames :
           Arrive(f) \/ ActiveMembers(f) \/ MemberRecords(f) \/ Verified(f)
    \/ Leave \/ Tick

Spec == Init /\ [][Next]_vars

-----------------------------------------------------------------------------
\* A frame with a side effect is applied only if its sender was a member after
\* the frame arrived; a byte stream of a peer that left the mesh goes on for
\* at most the lifetime of the cached result and one lookup.
FramesAreTrusted ==
    \A f \in Frames :
        frame[f].state = "applied" =>
            /\ frame[f].proof # 0
            /\ f \in Control => frame[f].proof >= frame[f].at
            /\ leftAt # 0 => frame[f].done <= leftAt + Ttl + Latency

-----------------------------------------------------------------------------
(***************************************************************************)
(* The endpoint pins of the mesh link controller                           *)
(* (src/src/services/mesh-client/mesh-srpc-link-controller.ts): before a   *)
(* request goes to the owner of a client its endpoint is pinned.  Pins are *)
(* kept until their table is full; then the ones nothing needs any longer  *)
(* are released.  What needs a pin is a connection, its resolution under   *)
(* way, and the cleanup still owed for it.                                 *)
(*                                                                         *)
(* One client per endpoint is followed.  Requests for the client service   *)
(* pin an endpoint too and leave nothing behind that needs it.             *)
(***************************************************************************)

CONSTANTS
    Endpoints,
    MaxEndpointPins,
    MaxRemoteConnections

VARIABLES
    pins,           \* endpointPinUnregisters
    resolving,      \* resolvingRemoteConnections
    remote,         \* remoteConnections
    cleanup,        \* cleanupMarkers
    refused         \* the last request was refused for want of a pin

varsPins == <<pins, resolving, remote, cleanup, refused>>

InitPins ==
    /\ pins = {} /\ resolving = {} /\ remote = {} /\ cleanup = {}
    /\ refused = FALSE

\* Mutant: what is still to be cleaned up does not keep a pin.
LiveOpen == remote \cup resolving

Live == remote \cup resolving \cup cleanup

\* pinNode(), pruneEndpointPins(): the pins once e is to be pinned.
Room(e) ==
    IF e \notin pins /\ Cardinality(pins) >= MaxEndpointPins THEN pins \cap Live ELSE pins

CanPin(e) == e \in pins \/ Cardinality(Room(e)) < MaxEndpointPins

\* assertNodeCapability(): a request without a pin is refused.
Refuse(e) ==
    /\ ~CanPin(e)
    /\ pins' = Room(e) /\ refused' = TRUE
    /\ UNCHANGED <<resolving, remote, cleanup>>

Pin(e) == CanPin(e) /\ pins' = Room(e) \cup {e} /\ refused' = FALSE

\* requestClientOwner(), requestOwner()
RequestOwner(e) == Pin(e) /\ UNCHANGED <<resolving, remote, cleanup>>

\* resolveRegisteredClient(): a cached connection, the resolution under way,
\* or a new one unless there are too many.
ResolveRegisteredClient(e) ==
    /\ Pin(e)
    /\ resolving' =
         IF e \in remote \cup resolving
            \/ Cardinality(remote) + Cardinality(resolving) + Cardinality(cleanup)
                 >= MaxRemoteConnections
         THEN resolving ELSE resolving \cup {e}
    /\ UNCHANGED <<remote, cleanup>>

\* createRemoteConnection() ends: with a connection, with a capability to give
\* back, or with nothing.
CreateRemoteConnection(e) ==
    /\ e \in resolving
    /\ resolving' = resolving \ {e}
    /\ \/ remote' = remote \cup {e} /\ UNCHANGED cleanup
       \/ cleanup' = cleanup \cup {e} /\ UNCHANGED remote
       \/ UNCHANGED <<remote, cleanup>>
    /\ UNCHANGED <<pins, refused>>

\* invalidate(): the capability of the connection is to be given back.
Invalidate(e) ==
    /\ e \in remote
    /\ remote' = remote \ {e} /\ cleanup' = cleanup \cup {e}
    /\ UNCHANGED <<pins, resolving, refused>>

\* retryCleanupMarker() pins the owner again and gives the capability back, or
\* drops the marker when the owner changed or the marker is too old.
RetryCleanupMarker(e) ==
    /\ e \in cleanup
    /\ Pin(e)
    /\ \/ cleanup' = cleanup \ {e}
       \/ UNCHANGED cleanup
    /\ UNCHANGED <<resolving, remote>>

NextPins ==
    \E e \in Endpoints :
        \/ Refuse(e) \/ RequestOwner(e) \/ ResolveRegisteredClient(e)
        \/ CreateRemoteConnection(e) \/ Invalidate(e) \/ RetryCleanupMarker(e)

SpecPins == InitPins /\ [][NextPins]_varsPins

-----------------------------------------------------------------------------
\* However full the table is, the endpoint of a connection, of a resolution
\* under way and of a cleanup still owed stays pinned, so a cleanup is never
\* refused; a request is refused only while every pin is needed.
PinsFollowObligations ==
    /\ Live \subseteq pins
    /\ Cardinality(pins) <= MaxEndpointPins
    /\ refused => Cardinality(pins) = MaxEndpointPins
    /\ \A e \in cleanup : CanPin(e)
=============================================================================
