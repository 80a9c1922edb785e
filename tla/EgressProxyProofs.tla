--------------------------- MODULE EgressProxyProofs ---------------------------
(***************************************************************************)
(* Theorems about the browser's loopback proxy, for any number of          *)
(* connections, slots and addresses: slots are conserved, the preflight    *)
(* gives its own back, and close() misses no tunnel.                       *)
(***************************************************************************)
EXTENDS EgressProxy, FiniteSetTheorems, TLAPS

\* The connections whose handler has a slot.
Handled == {c \in Conns : conn[c] \in Handling}

\* The state is well typed, except that nothing bounds free yet, and a socket
\* is for an address that is left.
Typed ==
    /\ owner \in {"new", "probing", "probed", "up", "waiting", "close", "closing", "shutting", "done"}
    /\ closeEvent \in BOOLEAN /\ serving \in BOOLEAN
    /\ active \subseteq Conns \X {"client", "upstream"}
    /\ free \in Nat
    /\ conn \in [Conns -> ConnStates]
    /\ client \in [Conns -> {"none", "open", "shut"}]
    /\ upstream \in [Conns -> {"none", "open", "shut"}]
    /\ addresses \in [Conns -> 0 .. MaxAddresses]
    /\ solver \in {"idle", "busy", "closed"}
    /\ helper \in {"none", "queued", "done"}
    /\ \A c \in Conns : conn[c] = "socket" => addresses[c] > 0

\* Until start() returns, only its own probe has connected.
ProbeAlone ==
    /\ owner = "new" => \A c \in Conns : conn[c] = "away"
    /\ owner \in {"probing", "probed"} => \A c \in Conns : c # Probe => conn[c] = "away"

\* The event is set before the sockets are looked for.
EventFirst == owner \in {"closing", "shutting", "done"} => closeEvent

Inv == Typed /\ CapacityConserved /\ ProbeAlone /\ EventFirst /\ NoTunnelEscapes

USE DEF Owner, Browser, Sockets, Go, Handling, ConnStates

---------------------------------------------------------------------------
(* Counting slots *)

LEMMA HandledFinite ==
    ASSUME ProxyAssumption
    PROVE  IsFiniteSet(Handled) /\ Cardinality(Handled) \in Nat
BY FS_Subset, FS_CardinalityType DEF ProxyAssumption, Handled

\* A handler starts.
LEMMA OneMore ==
    ASSUME ProxyAssumption, Typed, CapacityConserved, NEW c \in Conns,
           Handled' = Handled \cup {c}, c \notin Handled, free' = free - 1
    PROVE  CapacityConserved'
<1>1. Cardinality(Handled') = Cardinality(Handled) + 1
    BY HandledFinite, FS_AddElement
<1> QED BY <1>1, HandledFinite DEF CapacityConserved, Handled, Typed, ProxyAssumption

\* A handler ends.
LEMMA OneLess ==
    ASSUME ProxyAssumption, Typed, CapacityConserved, NEW c \in Conns,
           Handled' = Handled \ {c}, c \in Handled, free' = free + 1
    PROVE  CapacityConserved'
<1>1. Cardinality(Handled') = Cardinality(Handled) - 1
    BY HandledFinite, FS_RemoveElement
<1> QED BY <1>1, HandledFinite DEF CapacityConserved, Handled, Typed, ProxyAssumption

\* No handler starts or ends.
LEMMA AsMany ==
    ASSUME CapacityConserved, Handled' = Handled, free' = free
    PROVE  CapacityConserved'
BY DEF CapacityConserved, Handled

---------------------------------------------------------------------------
LEMMA InvInit == ASSUME ProxyAssumption, Init PROVE Inv
<1>1. Typed
    <2>1. addresses \in [Conns -> 0 .. MaxAddresses] /\ active \subseteq Conns \X {"client", "upstream"}
        BY DEF ProxyAssumption, Init
    <2>2. \A c \in Conns : conn[c] # "socket"
        BY DEF Init
    <2> QED BY <2>1, <2>2 DEF ProxyAssumption, Init, Typed
<1>2. ProbeAlone /\ EventFirst /\ NoTunnelEscapes
    BY DEF ProxyAssumption, Init, ProbeAlone, EventFirst, NoTunnelEscapes
<1>3. Handled = {} /\ free = MaxConnections
    BY DEF Init, Handled
<1>4. Cardinality(Handled) = 0
    BY <1>3, FS_EmptySet
<1>5. CapacityConserved
    BY <1>3, <1>4 DEF CapacityConserved, Handled, ProxyAssumption
<1> QED BY <1>1, <1>2, <1>5 DEF Inv

\* No handler starts or ends in a step of start() or of the shutdown.
LEMMA OwnerKeepsSlots ==
    ASSUME Typed, ProbeAlone,
           \/ Start \/ Negotiated \/ Ready \/ PreflightFails \/ Solve \/ SolveEnds
           \/ Shutdown \/ HelperCloses \/ WaitOver \/ Close \/ UNCHANGED vars
    PROVE  Handled' = Handled /\ free' = free
<1>1. CASE Start
    BY <1>1 DEF Start, Handled, Typed, ProbeAlone
<1>2. CASE StopServing
    BY <1>2 DEF StopServing, Handled, Typed
<1>3. CASE \/ Negotiated \/ Ready \/ PreflightFails \/ Solve \/ SolveEnds
           \/ Shutdown \/ HelperCloses \/ WaitOver \/ UNCHANGED vars
    BY <1>3 DEF Negotiated, Ready, PreflightFails, Solve, SolveEnds, Shutdown, HelperCloses,
                WaitOver, vars, Handled
<1>4. CASE CloseEvent \/ FindSockets \/ \E c \in Conns : CloseSocket(c)
    BY <1>4 DEF CloseEvent, FindSockets, CloseSocket, Handled
<1> QED BY <1>1, <1>2, <1>3, <1>4 DEF Close

\* Everything but the count of slots in those steps.
LEMMA OwnerSteps ==
    ASSUME ProxyAssumption, Inv,
           \/ Start \/ Negotiated \/ Ready \/ PreflightFails \/ Solve \/ SolveEnds
           \/ Shutdown \/ HelperCloses \/ WaitOver \/ Close \/ UNCHANGED vars
    PROVE  Typed' /\ ProbeAlone' /\ EventFirst' /\ NoTunnelEscapes'
<1> USE DEF ProxyAssumption, Inv, Typed, ProbeAlone, EventFirst, NoTunnelEscapes
<1>1. CASE Start
    BY <1>1 DEF Start
<1>2. CASE Negotiated \/ Ready \/ PreflightFails
    BY <1>2 DEF Negotiated, Ready, PreflightFails
<1>3. CASE Solve \/ SolveEnds \/ HelperCloses
    BY <1>3 DEF Solve, SolveEnds, HelperCloses
<1>4. CASE Shutdown \/ WaitOver \/ CloseEvent
    BY <1>4 DEF Shutdown, WaitOver, CloseEvent
<1>5. CASE FindSockets
    <2>1. active' \subseteq Conns \X {"client", "upstream"}
        BY <1>5 DEF FindSockets, Tracked
    <2>2. \A c \in Conns : /\ conn[c] \in Handling \ {"started"} => <<c, "client">> \in active'
                           /\ upstream[c] # "none" => <<c, "upstream">> \in active'
        BY <1>5 DEF FindSockets, Tracked
    <2>3. NoTunnelEscapes'
        BY <1>5, <2>2 DEF FindSockets
    <2> QED BY <1>5, <2>1, <2>3 DEF FindSockets
<1>6. ASSUME NEW c \in Conns, CloseSocket(c)
      PROVE  Typed' /\ ProbeAlone' /\ EventFirst' /\ NoTunnelEscapes'
    BY <1>6 DEF CloseSocket, Closed
<1>7. CASE StopServing
    <2>1. \A c \in Conns : conn'[c] = conn[c] \/ conn'[c] = "gone"
        BY <1>7 DEF StopServing
    <2> QED BY <1>7, <2>1 DEF StopServing
<1>8. CASE UNCHANGED vars
    BY <1>8 DEF vars
<1> QED BY <1>1, <1>2, <1>3, <1>4, <1>5, <1>6, <1>7, <1>8 DEF Close

\* The steps of connections that neither take nor return a slot.
Rest(c) ==
    \/ Connect(c) \/ Refuse(c) \/ AcceptFails(c) \/ NoRequest(c) \/ Connected(c)
    \/ NotConnected(c) \/ RelayEnds(c) \/ Request(c) \/ Resolved(c)
    \/ Track(c) \/ Check(c) \/ NextAddress(c) \/ TrackUpstream(c) \/ CheckUpstream(c) \/ Leave(c)

LEMMA RestKeepsSlots ==
    ASSUME Typed, NEW c \in Conns, Rest(c)
    PROVE  Handled' = Handled /\ free' = free
<1> USE DEF Handled, Typed
<1>1. CASE Connect(c) \/ Refuse(c) \/ AcceptFails(c) \/ Leave(c)
    BY <1>1 DEF Connect, Refuse, AcceptFails, Leave
<1>2. CASE NoRequest(c) \/ Connected(c) \/ NotConnected(c) \/ RelayEnds(c)
    BY <1>2 DEF NoRequest, Connected, NotConnected, RelayEnds
<1>3. CASE Request(c) \/ Resolved(c) \/ Track(c) \/ Check(c)
    BY <1>3 DEF Request, Resolved, Approved, Denied, Track, Check
<1>4. CASE NextAddress(c) \/ TrackUpstream(c) \/ CheckUpstream(c)
    BY <1>4 DEF NextAddress, TrackUpstream, CheckUpstream
<1> QED BY <1>1, <1>2, <1>3, <1>4 DEF Rest

\* Everything but the count of slots in the steps of a connection.
LEMMA ConnectionSteps ==
    ASSUME ProxyAssumption, Inv, NEW c \in Conns, Rest(c) \/ Accept(c) \/ Finish(c)
    PROVE  Typed' /\ ProbeAlone' /\ EventFirst' /\ NoTunnelEscapes'
<1> USE DEF ProxyAssumption, Inv, Typed, ProbeAlone, EventFirst, NoTunnelEscapes
<1>1. CASE Connect(c)
    BY <1>1 DEF Connect
<1>2. CASE Refuse(c) \/ AcceptFails(c)
    BY <1>2 DEF Refuse, AcceptFails
<1>3. CASE Request(c) \/ NoRequest(c) \/ Denied(c) \/ RelayEnds(c)
    BY <1>3 DEF Request, NoRequest, Denied, RelayEnds
<1>4. CASE Connected(c)
    BY <1>4 DEF Connected
<1>5. CASE NotConnected(c)
    BY <1>5 DEF NotConnected
<1>6. ASSUME NEW n \in 1 .. MaxAddresses, Approved(c, n)
      PROVE  Typed' /\ ProbeAlone' /\ EventFirst' /\ NoTunnelEscapes'
    BY <1>6 DEF Approved
<1>7. CASE Track(c) \/ Leave(c)
    BY <1>7 DEF Track, Leave
<1>8. CASE Check(c)
    BY <1>8 DEF Check
<1>9. CASE NextAddress(c)
    BY <1>9 DEF NextAddress
<1>10. CASE TrackUpstream(c)
    <2>1. addresses[c] > 0
        BY <1>10 DEF TrackUpstream
    <2> QED BY <1>10, <2>1 DEF TrackUpstream
<1>11. CASE CheckUpstream(c)
    BY <1>11 DEF CheckUpstream
<1>12. CASE Accept(c)
    BY <1>12 DEF Accept
<1>13. CASE Finish(c)
    BY <1>13 DEF Finish
<1> QED BY <1>1, <1>2, <1>3, <1>4, <1>5, <1>6, <1>7, <1>8, <1>9, <1>10, <1>11, <1>12, <1>13
       DEF Rest, Resolved

LEMMA InvNext == ASSUME ProxyAssumption, Inv, [Next]_vars PROVE Inv'
<1> USE DEF Inv
<1>1. CASE \/ Start \/ Negotiated \/ Ready \/ PreflightFails \/ Solve \/ SolveEnds
           \/ Shutdown \/ HelperCloses \/ WaitOver \/ Close \/ UNCHANGED vars
    BY <1>1, OwnerKeepsSlots, OwnerSteps, AsMany
<1>2. ASSUME NEW c \in Conns, Rest(c) PROVE Inv'
    BY <1>2, RestKeepsSlots, ConnectionSteps, AsMany
<1>3. ASSUME NEW c \in Conns, Accept(c) PROVE Inv'
    <2>1. Handled' = Handled \cup {c} /\ c \notin Handled /\ free' = free - 1
        BY <1>3 DEF Accept, Handled, Typed
    <2> QED BY <1>3, <2>1, ConnectionSteps, OneMore
<1>4. ASSUME NEW c \in Conns, Finish(c) PROVE Inv'
    <2>1. Handled' = Handled \ {c} /\ c \in Handled /\ free' = free + 1
        BY <1>4 DEF Finish, Handled, Typed
    <2> QED BY <1>4, <2>1, ConnectionSteps, OneLess
<1> QED BY <1>1, <1>2, <1>3, <1>4 DEF Next, Handler, Peer, Resolved, Rest

LEMMA InvAlways == ASSUME ProxyAssumption PROVE Spec => []Inv
BY InvInit, InvNext, PTL DEF Spec

---------------------------------------------------------------------------
\* The state is well typed; that no more slots are free than there are
\* follows from the count.
THEOREM TypeCorrect == ASSUME ProxyAssumption PROVE Spec => []TypeOK
<1>1. Inv => TypeOK
    BY HandledFinite DEF Inv, Typed, CapacityConserved, Handled, TypeOK, ProxyAssumption
<1> QED BY <1>1, InvAlways, PTL

\* Whatever fails between accept and the end of a handler, no slot is lost
\* and none is returned twice.
THEOREM CapacityIsConserved == ASSUME ProxyAssumption PROVE Spec => []CapacityConserved
BY InvAlways, PTL DEF Inv

\* close() finds the sockets of every handler that goes on.
THEOREM CloseMissesNoTunnel == ASSUME ProxyAssumption PROVE Spec => []NoTunnelEscapes
BY InvAlways, PTL DEF Inv

\* When start() returns, every slot is free.
THEOREM PreflightIsNeutral == ASSUME ProxyAssumption PROVE Spec => PreflightFreesItsSlot
<1>1. ASSUME Inv, [Next]_vars, owner # "up", owner' = "up" PROVE free' = MaxConnections
    <2>1. Ready
        BY <1>1 DEF Next, Start, Negotiated, PreflightFails, Solve, SolveEnds, Shutdown, HelperCloses,
                    WaitOver, Close, CloseEvent, FindSockets, CloseSocket, StopServing, Refuse, Accept,
                    AcceptFails, Handler, Peer, Track, Check, NextAddress, TrackUpstream, CheckUpstream,
                    Finish, Leave, Connect, NoRequest, Connected, NotConnected, RelayEnds, Request,
                    Resolved, Approved, Denied, vars
    <2>2. Handled = {}
        BY <1>1, <2>1 DEF Ready, Inv, ProbeAlone, Handled
    <2>3. Cardinality(Handled) = 0
        BY <2>2, FS_EmptySet
    <2> QED BY <1>1, <2>1, <2>3 DEF Ready, Inv, Typed, CapacityConserved, Handled, ProxyAssumption
<1>2. Inv /\ [Next]_vars => (owner # "up" /\ owner' = "up" => free' = MaxConnections) \/ UNCHANGED vars
    BY <1>1
<1> QED BY <1>1, <1>2, InvAlways, PTL DEF Spec, PreflightFreesItsSlot

=============================================================================
