---------------------------- MODULE EndpointPool ----------------------------
(***************************************************************************)
(* mt5-session/src/endpoints.rs `EndpointPool`, driven as it is by         *)
(* Client::connect_with_endpoints in a host that reconnects whenever its   *)
(* connection is gone: resolve, dial in order, log in, learn.              *)
(*                                                                         *)
(* A name stands for "host:port", a peer for a socket address.  Which peer *)
(* accepts, refuses, stays silent or logs in is the network's choice at    *)
(* every dial, except for the reliable ones.                               *)
(***************************************************************************)
EXTENDS Naturals, SequencesExt

CONSTANTS HostNames, Valid, \* addresses as text; the ones valid_address accepts
          SeedLists,        \* what the pool may be configured with
          Lookup(_),        \* what resolving a name may return: sequences of peers
          Peers, Private,   \* socket addresses; the ones that are not public
          Reliable,         \* peers that always accept and log in
          NoPeer,
          Points,           \* what a synchronization may advertise: sequences of names
          MaxSeeds, MaxRoutes, MaxTargets,  \* 32, 64 and 64
          Attempts          \* silent peers one dial outlasts: 15 s at 3 s each

ASSUME PoolAssumption ==
    /\ Valid \subseteq HostNames /\ Private \subseteq Peers /\ Reliable \subseteq Peers
    /\ NoPeer \notin Peers
    /\ SeedLists \union Points \subseteq Seq(HostNames)
    /\ \A name \in Valid : Lookup(name) \subseteq Seq(Peers)
    /\ MaxSeeds \in Nat /\ MaxRoutes \in Nat /\ MaxSeeds <= MaxRoutes
    /\ MaxTargets \in Nat \ {0} /\ Attempts \in Nat \ {0}

VARIABLES
    routes,     \* EndpointPool::routes
    lastPeer,   \* EndpointPool::last_peer
    host,       \* idle, dialing, accepted (a socket, not yet logged in) or up
    targets,    \* the socket addresses still to be dialled
    left,       \* silent peers the deadline still allows
    peer        \* the other end of the socket

pool == <<routes, lastPeer>>
dial == <<targets, left>>
pooling == <<pool, host, dial, peer>>

Route(address, learned) == [address |-> address, learned |-> learned]
Known(rs, address) == \E i \in DOMAIN rs : rs[i].address = address

Only(s, S) ==
    LET Add(kept, e) == IF e \in S THEN Append(kept, e) ELSE kept
    IN  FoldLeft(Add, <<>>, s)

\* Routes rs and those of the names that are new to it.
WithRoutes(rs, names, learned) ==
    LET Add(known, name) ==
            IF Known(known, name) THEN known ELSE Append(known, Route(name, learned))
    IN  FoldLeft(Add, rs, names)

\* `new` refuses a list with an invalid address, and one that is too long once
\* repetitions are dropped.
PoolInit ==
    /\ \E seeds \in SeedLists :
         /\ ToSet(seeds) \subseteq Valid
         /\ routes = WithRoutes(<<>>, seeds, FALSE)
    /\ Len(routes) \in 1 .. MaxSeeds
    /\ lastPeer = NoPeer
    /\ host = "idle" /\ targets = <<>> /\ left = 0 /\ peer = NoPeer

------------------------------------------------------------------------------
(* The pool *)

\* learn stops at the limit.
Learn(names) ==
    LET all == WithRoutes(routes, Only(names, Valid), TRUE)
    IN  SubSeq(all, 1, IF Len(all) < MaxRoutes THEN Len(all) ELSE MaxRoutes)

\* Fault: nothing is held back.
ResolveAny(i) == Lookup(routes[i].address)

\* What route i resolves to; what was learned does not lead to private peers.
Resolve(i) ==
    IF routes[i].learned
    THEN {Only(s, Peers \ Private) : s \in Lookup(routes[i].address)}
    ELSE Lookup(routes[i].address)

\* The last peer first, then route by route, each peer once.
Targets(found) ==
    LET Add(ps, p) ==
            IF Len(ps) < MaxTargets /\ ~Contains(ps, p) THEN Append(ps, p) ELSE ps
        first == IF lastPeer = NoPeer THEN <<>> ELSE <<lastPeer>>
    IN  FoldLeft(Add, first, FlattenSeq(found))

\* Fault: the order stays.
NotRotated == routes
RotatedLeft == Append(Tail(routes), Head(routes))

\* EndpointPool::connect up to the first dial.
Connect ==
    /\ host = "idle"
    /\ \E found \in [DOMAIN routes -> UNION {Resolve(i) : i \in DOMAIN routes}] :
         /\ \A i \in DOMAIN routes : found[i] \in Resolve(i)
         /\ targets' = Targets(found)
    /\ routes' = RotatedLeft
    /\ lastPeer' = NoPeer
    /\ left' = Attempts
    /\ host' = "dialing"
    /\ UNCHANGED peer

------------------------------------------------------------------------------
(* Connection::connect and the login *)

Dialing == host = "dialing" /\ targets # <<>> /\ left > 0

Accepted ==
    /\ Dialing
    /\ host' = "accepted" /\ peer' = Head(targets)
    /\ targets' = <<>> /\ left' = 0
    /\ UNCHANGED pool

\* A refusal takes no time, a silent peer its share of the deadline.
NextTarget ==
    /\ Dialing /\ Head(targets) \notin Reliable
    /\ targets' = Tail(targets)
    /\ left' \in {left, left - 1}
    /\ UNCHANGED <<pool, host, peer>>

DialFails ==
    /\ host = "dialing" /\ ~(targets # <<>> /\ left > 0)
    /\ host' = "idle" /\ targets' = <<>> /\ left' = 0
    /\ UNCHANGED <<pool, peer>>

\* Authenticated and synchronized.  The peer is noted unless the socket is already
\* gone; then the caller gets an error after the pool has learned.
Login ==
    /\ host = "accepted"
    /\ \E names \in Points : routes' = Learn(names)
    /\ \/ host' = "up" /\ lastPeer' = peer /\ UNCHANGED peer
       \/ /\ peer \notin Reliable
          /\ host' = "idle" /\ peer' = NoPeer /\ UNCHANGED lastPeer
    /\ UNCHANGED dial

LoginFails ==
    /\ host = "accepted" /\ peer \notin Reliable
    /\ host' = "idle" /\ peer' = NoPeer
    /\ UNCHANGED <<pool, dial>>

\* The client became unhealthy, and the host drops it.
Broken ==
    /\ host = "up"
    /\ host' = "idle" /\ peer' = NoPeer
    /\ UNCHANGED <<pool, dial>>

------------------------------------------------------------------------------

Reconnect == Connect \/ Accepted \/ NextTarget \/ DialFails \/ Login \/ LoginFails
PoolNext == Reconnect \/ Broken

PoolSpec == PoolInit /\ [][PoolNext]_pooling

\* The host tries again as long as it has no connection.
FairPoolSpec == PoolSpec /\ WF_pooling(Reconnect)

------------------------------------------------------------------------------
(* Properties *)

Seeds == {routes[i].address : i \in {j \in DOMAIN routes : ~routes[j].learned}}

\* "Explicit seeds may be private addresses": what brokers advertise never makes
\* the host dial, or come back to, a private peer that no seed leads to, though the
\* last peer is dialled unchecked.  Neither the pool nor a dial outgrows its limit.
PrivateBySeedOnly ==
    /\ Len(routes) \in 1 .. MaxRoutes /\ Len(targets) <= MaxTargets
    /\ \A p \in Private \intersect (ToSet(targets) \union {lastPeer, peer}) :
         \E s \in Seeds : \E found \in Lookup(s) : Contains(found, p)

\* "A subsequent reconnect gets a different starting route if all fail": a host
\* that has lost its connection gets one again if a seed leads to a reliable peer,
\* whatever the other peers do and advertise: accept and reject the login, or keep the
\* dialler waiting until its time is up.
Reconnects == host = "idle" ~> host = "up"

=============================================================================
