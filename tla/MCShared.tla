-------------------------------- MODULE MCShared --------------------------------
(***************************************************************************)
(* Small instances for TLC of what the requests to the server share: the   *)
(* rate limiter of a domain, the Reddit queue as it is stopped and         *)
(* restarted, the parser slots of html.py and pdf.py, the browser's proxy, *)
(* the response cache, the HTTP limiter and the DNS cache.  No part reads  *)
(* what another writes, so each behaviour exercises one of them.           *)
(***************************************************************************)
EXTENDS DomainLimiter, FiniteSets

CONSTANTS
    First,                                                    \* DomainLimiter
    Calls, MaxProcesses,                                      \* ParserSlots
    Conns, Probe, MaxConnections, MaxAddresses,               \* EgressProxy
    Urls, CacheEntries, Ttls, CacheHorizon,                   \* ResponseCache
    Addresses, Limit, TableEntries, Quota, Throttle, TableHorizon,   \* AddressLimiter
    Items, Procs, NoItem, NoProc, Window, MaxPerMinute, Threshold, MaxQueueWait,
    BackoffRateLimit, BackoffBlocked, MaxRetryAfter, NoDelay, RetryAfters,
    DefaultDelays, QueueHorizon,                              \* RedditQueue
    Checkers, Hosts, Workers, DnsEntries, Ttl, NegativeTtl, SinkholeTtl, Timeout, Doh,
    LastLookup, DnsHorizon                                    \* DnsCache

MCExtra == [r \in Callers |-> IF r = First THEN 2 ELSE 0]

VARIABLES
    part,
    free, returning, call,
    owner, closeEvent, serving, active, slots, conn, client, upstream, addresses, solver, helper,
    clock, cache, expires, used, called,
    minute, entries, lastCleanup, verdict, allowed,
    time, queue, running, task, heldUntil, startedAt,
    stopping, interrupted, place, held, wakes, future, enqueuedAt, callback, throttled,
    dnsTime, answers, sinkholed, ask, stuck, served

limiterVars == vars
slotsVars == <<free, returning, call>>
proxyVars == <<owner, closeEvent, serving, active, slots, conn, client, upstream, addresses, solver, helper>>
cacheVars == <<clock, cache, expires, used, called>>
addressVars == <<minute, entries, lastCleanup, verdict, allowed>>
redditVars == <<time, queue, running, task, heldUntil, startedAt,
                stopping, interrupted, place, held, wakes, future, enqueuedAt, callback, throttled>>
dnsVars == <<dnsTime, answers, sinkholed, ask, stuck, served>>
allVars == <<part, limiterVars, slotsVars, proxyVars, cacheVars, addressVars,
             redditVars, dnsVars>>

Slots == INSTANCE ParserSlots WITH StartHoldsSlot <- FALSE
Proxy == INSTANCE EgressProxy WITH free <- slots
Cache == INSTANCE ResponseCache WITH
             MaxEntries <- CacheEntries, Horizon <- CacheHorizon, now <- clock
Address == INSTANCE AddressLimiter WITH
               MaxEntries <- TableEntries, Window <- Quota, Horizon <- TableHorizon, now <- minute
Reddit == INSTANCE RedditQueue WITH
              Horizon <- QueueHorizon,
              now <- time, backoffUntil <- heldUntil, call <- callback, pc <- place, wake <- wakes
Dns == INSTANCE DnsCache WITH
           Callers <- Checkers, MaxEntries <- DnsEntries, Horizon <- DnsHorizon,
           now <- dnsTime, cache <- answers

\* The instances are ones the theorems speak of.
ASSUME InstancesAssumption ==
    /\ Slots!SlotsAssumption /\ Proxy!ProxyAssumption /\ Cache!CacheAssumption
    /\ Address!LimitsAssumption /\ Reddit!ConfigAssumption /\ Dns!DnsAssumption

Parts == {"limiter", "slots", "proxy", "cache", "address", "reddit", "dns"}

PartsInit ==
    /\ part \in Parts
    /\ Init /\ Slots!Init /\ Proxy!Init /\ Cache!Init /\ Address!Init
    /\ Reddit!Init /\ Dns!Init

LimiterStep ==
    /\ part = "limiter" /\ Next /\ (Due => now' = now)
    /\ UNCHANGED <<part, slotsVars, proxyVars, cacheVars, addressVars, redditVars, dnsVars>>
SlotsStep ==
    /\ part = "slots" /\ Slots!Next
    /\ UNCHANGED <<part, limiterVars, proxyVars, cacheVars, addressVars, redditVars, dnsVars>>
ProxyStep ==
    /\ part = "proxy" /\ Proxy!Next
    /\ UNCHANGED <<part, limiterVars, slotsVars, cacheVars, addressVars, redditVars, dnsVars>>
CacheStep ==
    /\ part = "cache" /\ Cache!Next
    /\ UNCHANGED <<part, limiterVars, slotsVars, proxyVars, addressVars, redditVars, dnsVars>>
AddressStep ==
    /\ part = "address" /\ Address!Next
    /\ UNCHANGED <<part, limiterVars, slotsVars, proxyVars, cacheVars, redditVars, dnsVars>>

RedditStep ==
    /\ part = "reddit" /\ Reddit!Next
    /\ UNCHANGED <<part, limiterVars, slotsVars, proxyVars, cacheVars, addressVars, dnsVars>>
DnsStep ==
    /\ part = "dns" /\ Dns!Next
    /\ UNCHANGED <<part, limiterVars, slotsVars, proxyVars, cacheVars, addressVars, redditVars>>

PartsNext ==
    \/ RedditStep \/ DnsStep
    \/ LimiterStep \/ SlotsStep \/ ProxyStep \/ CacheStep \/ AddressStep

\* The fairness of each part is that of its module.
PartsFairness ==
    /\ WF_vars(part = "limiter" /\ Tick /\ ~Due)
    /\ WF_vars(part = "limiter" /\ \E r \in Callers : Enter(r) \/ Wake(r))
    /\ \A r \in Calls :
           /\ WF_slotsVars(part = "slots" /\ Slots!Thread(r))
           /\ WF_slotsVars(part = "slots" /\ Slots!Return(r))
           /\ WF_slotsVars(part = "slots" /\ (Slots!NotStarted(r) \/ Slots!Stopped(r)))
           /\ WF_slotsVars(part = "slots" /\ Slots!Cancel(r))
    /\ WF_proxyVars(part = "proxy" /\ (Proxy!Close \/ Proxy!WaitOver))
    /\ \A k \in Conns :
           WF_proxyVars(part = "proxy" /\ (Proxy!Handler(k) \/ Proxy!Woken(k)))
    /\ \A p \in Procs : WF_redditVars(part = "reddit" /\ Reddit!ProcStep(p))
    /\ \A i \in Items : WF_redditVars(part = "reddit" /\ Reddit!Return(i))
    /\ WF_redditVars(part = "reddit" /\ Reddit!StopFinish)
    /\ WF_redditVars(part = "reddit" /\ Reddit!Tick)
    /\ WF_dnsVars(part = "dns" /\ Dns!Tick)
    /\ \A r \in Checkers : WF_dnsVars(part = "dns" /\ Dns!Ends(r))

PartsSpec == PartsInit /\ [][PartsNext]_allVars /\ PartsFairness

---------------------------------------------------------------------------
(* The properties of the parts, as their modules state them *)

\* Each part's variables have their types, and the invariants of the parts
\* hold: the limiter delays nobody twice, stop() and enqueue() of the Reddit
\* queue forget no caller, a capacity slot of the proxy is free or held by one
\* handler and close() misses no tunnel, the table of addresses turns away only
\* while it is full of active ones, and nothing is served from the DNS cache
\* past its time.
PartsInvariants ==
    /\ TypeOK /\ Slots!TypeOK /\ Proxy!TypeOK /\ Cache!TypeOK /\ Address!TypeOK
    /\ Reddit!TypeOK /\ Dns!TypeOK
    /\ NeverOversleeps
    /\ Reddit!NoLostCaller
    /\ Proxy!CapacityConserved /\ Proxy!NoTunnelEscapes
    /\ Address!TurnedAwayByActive
    /\ Dns!ServedInTime

\* reddit_queue.py: every caller is answered, however the queue is stopped.
EveryCallerAnswered == Reddit!EveryCallerAnswered

\* ssrf.py: every check of a host ends, though resolver threads may hang.
EveryCheckEnds == Dns!EveryCheckEnds

\* html.py, pdf.py: a slot comes back however its call ends.
EverySlotComesBack == Slots!EverySlotComesBack

\* server.py: shutdown ends, though the solver may be busy forever.
ShutdownEnds == Proxy!ShutdownEnds

\* browser_proxy.py: after close() every handler ends and its slot is back.
TunnelsEnd == Proxy!TunnelsEnd

\* response_cache.py: only the response used longest ago is given up.
EvictsLeastUsed == Cache!EvictsLeastUsed

\* middleware.py: no address exceeds its requests per window, also when the
\* table forgot it in between.
WithinQuota == Address!WithinQuota

=============================================================================
