----------------------------- MODULE EgressProxy -----------------------------
(***************************************************************************)
(* The browser's loopback SOCKS proxy                                      *)
(* (src/src/fetchaller/security/browser_proxy.py) and the shutdown that    *)
(* closes it behind a browser that may be busy (server.py).                *)
(*                                                                         *)
(* The accept thread takes a capacity slot per connection and starts a     *)
(* handler thread, which registers its sockets, looks at _close_event and  *)
(* goes on.  close() sets the event, closes the sockets it finds and stops *)
(* the accept thread, at any moment of all of them.                        *)
(***************************************************************************)
EXTENDS Integers, FiniteSets

CONSTANTS
    Conns,            \* connections, one of them preflight's
    Probe,
    MaxConnections,   \* the semaphore's initial value
    MaxAddresses      \* the addresses that a host may resolve to

ProxyAssumption ==
    /\ IsFiniteSet(Conns) /\ Probe \in Conns
    /\ MaxConnections \in Nat \ {0} /\ MaxAddresses \in Nat \ {0}

VARIABLES
    owner,       \* the thread in start(), later the cleanup that calls close()
    closeEvent,  \* _close_event
    serving,     \* the accept thread
    active,      \* the sockets that close() has yet to close
    free,        \* the semaphore's value
    conn,        \* where each connection and its handler are
    client,      \* the handler's socket to the browser
    upstream,    \* its socket to the remote host
    addresses,   \* the addresses it has yet to try
    solver,      \* BrowserSolver's worker
    helper       \* the thread that closes it

vars == <<owner, closeEvent, serving, active, free, conn, client, upstream, addresses, solver, helper>>

\* A connection waits to be accepted; its handler has been started, looks at
\* _close_event, reads the request, has its host checked, is between two
\* addresses, has checked the event, has a socket, connects it, relays, is in
\* its finally, has returned the slot.
Handling ==
    {"started", "check", "read", "resolve", "next", "socket", "checked", "connect", "relay", "finally"}
ConnStates == {"away", "backlog", "returned", "gone"} \cup Handling

TypeOK ==
    /\ owner \in {"new", "probing", "probed", "up", "waiting", "close", "closing", "shutting", "done"}
    /\ closeEvent \in BOOLEAN /\ serving \in BOOLEAN
    /\ active \subseteq Conns \X {"client", "upstream"}
    /\ free \in 0 .. MaxConnections
    /\ conn \in [Conns -> ConnStates]
    /\ client \in [Conns -> {"none", "open", "shut"}]
    /\ upstream \in [Conns -> {"none", "open", "shut"}]
    /\ addresses \in [Conns -> 0 .. MaxAddresses]
    /\ solver \in {"idle", "busy", "closed"}
    /\ helper \in {"none", "queued", "done"}

Init ==
    /\ owner = "new"
    /\ closeEvent = FALSE /\ serving = FALSE
    /\ active = {}
    /\ free = MaxConnections
    /\ conn = [c \in Conns |-> "away"]
    /\ client = [c \in Conns |-> "none"]
    /\ upstream = [c \in Conns |-> "none"]
    /\ addresses = [c \in Conns |-> 0]
    /\ solver = "idle"
    /\ helper = "none"

Owner == <<owner, closeEvent, serving, active>>
Browser == <<solver, helper>>
Sockets == <<client, upstream, addresses>>

Go(c, to) == conn' = [conn EXCEPT ![c] = to]

---------------------------------------------------------------------------
(* start() and preflight() *)

\* The listener is bound, the accept thread runs, and the probe connects.
Start ==
    /\ owner = "new"
    /\ owner' = "probing"
    /\ serving' = TRUE
    /\ Go(Probe, "backlog")
    /\ UNCHANGED <<closeEvent, active, free, Sockets, Browser>>

\* The probe is answered and closed: it waits for its handler to finish.
Negotiated ==
    /\ owner = "probing" /\ conn[Probe] = "read" /\ client[Probe] = "open"
    /\ owner' = "probed"
    /\ UNCHANGED <<closeEvent, serving, active, free, conn, Sockets, Browser>>

\* handler_finished is set.
ReadyMutant ==
    /\ owner = "probed" /\ conn[Probe] \in {"read", "finally", "returned", "gone"}
    /\ owner' = "up"
    /\ UNCHANGED <<closeEvent, serving, active, free, conn, Sockets, Browser>>
Ready ==
    /\ owner = "probed" /\ conn[Probe] = "gone"
    /\ owner' = "up"
    /\ UNCHANGED <<closeEvent, serving, active, free, conn, Sockets, Browser>>

\* The probe is not answered, or its handler not done, in time: close().
PreflightFails ==
    /\ owner \in {"probing", "probed"}
    /\ owner' = "close"
    /\ UNCHANGED <<closeEvent, serving, active, free, conn, Sockets, Browser>>

---------------------------------------------------------------------------
(* The accept thread: process_request *)

\* The browser opens connections once the proxy is up.
Connect(c) ==
    /\ owner \notin {"new", "probing", "probed", "done"} /\ solver # "closed"
    /\ conn[c] = "away" /\ c # Probe
    /\ Go(c, "backlog")
    /\ UNCHANGED <<Owner, free, Sockets, Browser>>

\* No slot is free: the connection is closed at the accept boundary.
Refuse(c) ==
    /\ serving /\ conn[c] = "backlog" /\ free = 0
    /\ Go(c, "gone")
    /\ UNCHANGED <<Owner, free, Sockets, Browser>>

Accept(c) ==
    /\ serving /\ conn[c] = "backlog" /\ free > 0
    /\ free' = free - 1
    /\ Go(c, "started")
    /\ client' = [client EXCEPT ![c] = "open"]
    /\ UNCHANGED <<Owner, upstream, addresses, Browser>>

\* No thread could be started: the slot is returned.
AcceptFailsMutant(c) ==
    /\ serving /\ conn[c] = "backlog" /\ free > 0
    /\ Go(c, "gone")
    /\ free' = free - 1
    /\ UNCHANGED <<Owner, Sockets, Browser>>
AcceptFails(c) ==
    /\ serving /\ conn[c] = "backlog" /\ free > 0
    /\ Go(c, "gone")
    /\ UNCHANGED <<Owner, free, Sockets, Browser>>

---------------------------------------------------------------------------
(* The handler: _handle_client, _connect_numeric, _relay *)

\* The client's socket is registered ...
Track(c) ==
    /\ conn[c] = "started"
    /\ Go(c, "check")
    /\ UNCHANGED <<Owner, free, Sockets, Browser>>

\* ... before _close_event is looked at.
Check(c) ==
    /\ conn[c] = "check"
    /\ Go(c, IF closeEvent THEN "finally" ELSE "read")
    /\ UNCHANGED <<Owner, free, Sockets, Browser>>

\* The request is read; its host is about to be resolved and checked.
Request(c) ==
    /\ conn[c] = "read" /\ client[c] = "open" /\ c # Probe
    /\ Go(c, "resolve")
    /\ UNCHANGED <<Owner, free, Sockets, Browser>>

\* The host has n allowed addresses.  The check blocks, and closing the
\* client's socket does not wake it: the event is looked at after it.
Approved(c, n) ==
    /\ conn[c] = "resolve"
    /\ Go(c, IF closeEvent THEN "finally" ELSE "next")
    /\ addresses' = [addresses EXCEPT ![c] = n]
    /\ UNCHANGED <<Owner, free, client, upstream, Browser>>

\* It has none, or the lookup failed or timed out.
Denied(c) ==
    /\ conn[c] = "resolve"
    /\ Go(c, "finally")
    /\ UNCHANGED <<Owner, free, Sockets, Browser>>

\* The request is malformed, times out, or the client is gone.
NoRequest(c) ==
    /\ conn[c] = "read"
    /\ Go(c, "finally")
    /\ UNCHANGED <<Owner, free, Sockets, Browser>>

\* The event is looked at before each address.
NextAddress(c) ==
    /\ conn[c] = "next"
    /\ Go(c, IF closeEvent \/ addresses[c] = 0 THEN "finally" ELSE "socket")
    /\ UNCHANGED <<Owner, free, Sockets, Browser>>

\* The new socket is registered ...
TrackUpstream(c) ==
    /\ conn[c] = "socket"
    /\ Go(c, "checked")
    /\ upstream' = [upstream EXCEPT ![c] = "open"]
    /\ addresses' = [addresses EXCEPT ![c] = @ - 1]
    /\ UNCHANGED <<Owner, free, client, Browser>>

\* ... before the event is looked at again.
CheckUpstreamMutant(c) ==
    /\ conn[c] = "checked"
    /\ Go(c, "connect")
    /\ UNCHANGED <<Owner, free, Sockets, Browser>>
CheckUpstream(c) ==
    /\ conn[c] = "checked"
    /\ IF closeEvent
       THEN Go(c, "finally") /\ upstream' = [upstream EXCEPT ![c] = "none"]
       ELSE Go(c, "connect") /\ UNCHANGED upstream
    /\ UNCHANGED <<Owner, free, client, addresses, Browser>>

Connected(c) ==
    /\ conn[c] = "connect" /\ upstream[c] = "open"
    /\ Go(c, "relay")
    /\ UNCHANGED <<Owner, free, Sockets, Browser>>

\* Refused, timed out, or close() closed the socket: the next address.
NotConnected(c) ==
    /\ conn[c] = "connect"
    /\ Go(c, "next")
    /\ upstream' = [upstream EXCEPT ![c] = "none"]
    /\ UNCHANGED <<Owner, free, client, addresses, Browser>>

\* A side hangs up or is idle for too long, or both pumps see that a socket
\* is closed or the event set.
RelayEnds(c) ==
    /\ conn[c] = "relay"
    /\ Go(c, "finally")
    /\ UNCHANGED <<Owner, free, Sockets, Browser>>

\* The finally: both sockets closed and forgotten, then the slot returned ...
Finish(c) ==
    /\ conn[c] = "finally"
    /\ Go(c, "returned")
    /\ client' = [client EXCEPT ![c] = "none"]
    /\ upstream' = [upstream EXCEPT ![c] = "none"]
    /\ addresses' = [addresses EXCEPT ![c] = 0]
    /\ free' = free + 1
    /\ UNCHANGED <<Owner, Browser>>

\* ... and then preflight's waiter set.
Leave(c) ==
    /\ conn[c] = "returned"
    /\ Go(c, "gone")
    /\ UNCHANGED <<Owner, free, Sockets, Browser>>

---------------------------------------------------------------------------
(* close_browser_runtime_bounded and close() *)

\* A challenge is solved on the solver's worker; nothing bounds it here.
Solve ==
    /\ solver = "idle" /\ owner = "up"
    /\ solver' = "busy"
    /\ UNCHANGED <<Owner, free, conn, Sockets, helper>>

SolveEnds ==
    /\ solver = "busy"
    /\ solver' = "idle"
    /\ UNCHANGED <<Owner, free, conn, Sockets, helper>>

\* The helper thread queues the solver's close(); without a solver only the
\* proxy is closed.
Shutdown ==
    /\ owner = "up"
    /\ \/ owner' = "waiting" /\ helper' = "queued"
       \/ solver = "idle" /\ owner' = "close" /\ UNCHANGED helper
    /\ UNCHANGED <<closeEvent, serving, active, free, conn, Sockets, solver>>

\* ... which its worker does once it is not busy.
HelperCloses ==
    /\ helper = "queued" /\ solver = "idle"
    /\ helper' = "done"
    /\ solver' = "closed"
    /\ UNCHANGED <<Owner, free, conn, Sockets>>

\* The helper is done, or the wait has lasted five seconds.
WaitOverMutant ==
    /\ owner = "waiting" /\ helper = "done"
    /\ owner' = "close"
    /\ UNCHANGED <<closeEvent, serving, active, free, conn, Sockets, Browser>>
WaitOver ==
    /\ owner = "waiting"
    /\ owner' = "close"
    /\ UNCHANGED <<closeEvent, serving, active, free, conn, Sockets, Browser>>

CloseEvent ==
    /\ owner = "close"
    /\ owner' = "closing"
    /\ closeEvent' = TRUE
    /\ UNCHANGED <<serving, active, free, conn, Sockets, Browser>>

\* The sockets registered by now are copied under the lock ...
TrackedMutant == {<<c, "client">> : c \in {d \in Conns : conn[d] \in Handling \ {"started"}}}
Tracked ==
    {<<c, "client">> : c \in {d \in Conns : conn[d] \in Handling \ {"started"}}}
    \cup {<<c, "upstream">> : c \in {d \in Conns : upstream[d] # "none"}}

FindSockets ==
    /\ owner = "closing"
    /\ owner' = "shutting"
    /\ active' = Tracked
    /\ UNCHANGED <<closeEvent, serving, free, conn, Sockets, Browser>>

\* ... and closed one by one, unless their handler did it first.
Closed(s) == IF s = "open" THEN "shut" ELSE s

CloseSocket(c) ==
    /\ owner = "shutting"
    /\ \/ /\ <<c, "client">> \in active
          /\ active' = active \ {<<c, "client">>}
          /\ client' = [client EXCEPT ![c] = Closed(@)]
          /\ UNCHANGED upstream
       \/ /\ <<c, "upstream">> \in active
          /\ active' = active \ {<<c, "upstream">>}
          /\ upstream' = [upstream EXCEPT ![c] = Closed(@)]
          /\ UNCHANGED client
    /\ UNCHANGED <<owner, closeEvent, serving, free, conn, addresses, Browser>>

\* server.shutdown() and server_close(): no more is accepted.
StopServing ==
    /\ owner = "shutting" /\ active = {}
    /\ owner' = "done"
    /\ serving' = FALSE
    /\ conn' = [c \in Conns |-> IF conn[c] = "backlog" THEN "gone" ELSE conn[c]]
    /\ UNCHANGED <<closeEvent, active, free, Sockets, Browser>>

Close == CloseEvent \/ FindSockets \/ StopServing \/ \E c \in Conns : CloseSocket(c)

Handler(c) ==
    \/ Track(c) \/ Check(c) \/ NextAddress(c) \/ TrackUpstream(c) \/ CheckUpstream(c)
    \/ Finish(c) \/ Leave(c)

\* The check of a host ends by the deadlines of the resolvers.
Resolved(c) == Denied(c) \/ \E n \in 1 .. MaxAddresses : Approved(c, n)

\* What the browser, the remote host and the timeouts decide.
Peer(c) ==
    \/ Connect(c) \/ Request(c) \/ NoRequest(c) \/ Connected(c) \/ NotConnected(c) \/ RelayEnds(c)

Next ==
    \/ Start \/ Negotiated \/ Ready \/ PreflightFails
    \/ Solve \/ SolveEnds \/ Shutdown \/ HelperCloses \/ WaitOver \/ Close
    \/ \E c \in Conns : Refuse(c) \/ Accept(c) \/ AcceptFails(c) \/ Handler(c) \/ Resolved(c) \/ Peer(c)

Spec == Init /\ [][Next]_vars

\* A handler goes on where it does not wait for a peer, and is woken by a
\* socket that close() closed and, in a relay, by the event, which the pumps
\* look at every second; nothing but the resolvers' deadlines ends the check of
\* a host.  No peer and no timeout of the handshake, the connect or an idle
\* tunnel is relied upon, and nothing says that a solve ends.
Woken(c) ==
    \/ client[c] = "shut" /\ NoRequest(c)
    \/ upstream[c] = "shut" /\ NotConnected(c)
    \/ closeEvent /\ RelayEnds(c)
    \/ Resolved(c)

---------------------------------------------------------------------------
(* Correctness *)

\* A slot is free or held by one handler: whatever fails between accept and
\* the end of the handler, none is lost and none is returned twice.
CapacityConserved ==
    free + Cardinality({c \in Conns : conn[c] \in Handling}) = MaxConnections

\* close() misses no tunnel: once it has copied the sockets, a handler that
\* got past its look at _close_event has no open socket that is not to be
\* closed, though it registered it at any moment.
NoTunnelEscapes ==
    owner \in {"shutting", "done"} =>
        \A c \in Conns :
            /\ conn[c] \in Handling \ {"started", "check", "finally"} /\ client[c] = "open" =>
                   <<c, "client">> \in active
            /\ conn[c] \in {"connect", "relay"} /\ upstream[c] = "open" => <<c, "upstream">> \in active

\* start() only returns once the probe of its preflight has given its slot
\* back: the browser finds all of them.
PreflightFreesItsSlot == [][owner # "up" /\ owner' = "up" => free' = MaxConnections]_vars

\* Shutdown ends, though the solver may be busy forever.
ShutdownEnds == []<>(owner \notin {"waiting", "close", "closing", "shutting"})

\* After close() every handler ends, without waiting for a peer, nor for a
\* timeout other than the resolvers'.
TunnelsEnd == []<>(closeEvent => owner = "done" /\ free = MaxConnections)

=============================================================================
