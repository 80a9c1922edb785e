------------------------------- MODULE DnsCache -------------------------------
(***************************************************************************)
(* Name resolution in src/src/fetchaller/security/ssrf.py: a bounded cache *)
(* of answers and failures, shared by the event loop and the threads of    *)
(* the browser's proxy, in front of a pool of resolver threads.  A lookup  *)
(* reads the clock once, when it begins; its timeout does not stop the     *)
(* thread.  A second table remembers which hosts were sinkholed.           *)
(* Addresses are not told apart.                                           *)
(***************************************************************************)
EXTENDS Integers, Dictionaries

CONSTANTS
    Callers,       \* the tasks and threads that check hosts
    Hosts,
    Workers,       \* max_workers of _DNS_EXECUTOR
    MaxEntries,    \* _DNS_CACHE_MAX
    Ttl,           \* _DNS_CACHE_TTL
    NegativeTtl,   \* _DNS_NEGATIVE_TTL
    SinkholeTtl,   \* _DNS_SINKHOLE_TTL
    Timeout,       \* _DNS_RESOLVE_TIMEOUT
    Doh,           \* DNS_DOH_FALLBACK: ask a public resolver after a sinkhole
    LastLookup,    \* bound on the time of the last lookup
    Horizon        \* bound on the clock

DnsAssumption ==
    /\ IsFiniteSet(Callers)
    /\ Workers \in Nat
    /\ MaxEntries \in Nat \ {0, 1}
    /\ {Ttl, NegativeTtl, SinkholeTtl} \subseteq Nat

VARIABLES
    now,        \* time.monotonic()
    cache,      \* _dns_cache, in the order of the dictionary
    sinkholed,  \* _sinkholed, likewise
    ask,        \* where each caller's lookup is
    stuck,      \* resolver threads whose callers have given up
    served      \* history: the entries that the step just made served

vars == <<now, cache, sinkholed, ask, stuck, served>>

\* Addresses, or an empty list: a failure or a sinkhole.
Entry == [host : Hosts, why : {"ips", "fail", "sinkhole"}, asked : Nat, until : Nat]

Idle == [pc |-> "idle", host |-> "none", asked |-> 0]

TypeOK ==
    /\ now \in Nat
    /\ \A i \in 1 .. Len(cache) : cache[i] \in Entry
    /\ \A i \in 1 .. Len(sinkholed) : sinkholed[i] \in [host : Hosts, until : Nat]
    /\ \A s \in {cache, sinkholed} :
           /\ Len(s) <= MaxEntries
           /\ \A i, j \in 1 .. Len(s) : s[i].host = s[j].host => i = j
    /\ \A c \in Callers :
           ask[c] \in {Idle} \cup [pc : {"queued", "running", "doh", "marked"}, host : Hosts, asked : Nat]
    /\ stuck \in Nat
    /\ stuck + Cardinality({c \in Callers : ask[c].pc = "running"}) <= Workers
    /\ served \subseteq Entry /\ Cardinality(served) <= 1

Init ==
    /\ now = 0
    /\ cache = <<>>
    /\ sinkholed = <<>>
    /\ ask = [c \in Callers |-> Idle]
    /\ stuck = 0
    /\ served = {}

---------------------------------------------------------------------------
(* Dictionaries *)

Has(s, h) == \E i \in 1 .. Len(s) : s[i].host = h
Get(s, h) == s[CHOOSE i \in 1 .. Len(s) : s[i].host = h]

\* s[e.host] = e, which leaves a key that is there in its place.
Put(s, e) ==
    IF Has(s, e.host)
    THEN [i \in 1 .. Len(s) |-> IF s[i].host = e.host THEN e ELSE s[i]]
    ELSE Append(s, e)

\* At capacity, what has expired goes first, then the older half.
Room(s, time) ==
    LET live == Kept(s, {i \in 1 .. Len(s) : time < s[i].until})
    IN  IF Len(s) < MaxEntries THEN s
        ELSE IF Len(live) < MaxEntries THEN live
        ELSE SubSeq(live, MaxEntries \div 2 + 1, Len(live))

---------------------------------------------------------------------------
(* Answers *)

\* The lookup of c ends with an answer that is kept until its ttl has passed
\* since the lookup began.
KeptUntilMutant(c, ttl) == now + ttl
KeptUntil(c, ttl) == ask[c].asked + ttl
Store(c, why, ttl) ==
    LET a == ask[c]
    IN  /\ cache' = Put(Room(cache, a.asked),
                        [host |-> a.host, why |-> why, asked |-> a.asked, until |-> KeptUntil(c, ttl)])
        /\ ask' = [ask EXCEPT ![c] = Idle]
        /\ served' = {}

StoreFailure(c) == Store(c, "fail", NegativeTtl)

---------------------------------------------------------------------------
(* _resolve_hostname, _resolve_hostname_sync *)

Hit(h) == Has(cache, h) /\ now < Get(cache, h).until

Check(c, h) ==
    /\ ask[c] = Idle
    /\ \/ /\ Hit(h)
          /\ served' = {Get(cache, h)}
          /\ UNCHANGED ask
       \/ /\ ~Hit(h) /\ now <= LastLookup
          /\ served' = {}
          /\ ask' = [ask EXCEPT ![c] = [pc |-> "queued", host |-> h, asked |-> now]]
    /\ UNCHANGED <<now, cache, sinkholed, stuck>>

\* A resolver thread is free for the lookup of c.
Begin(c) ==
    /\ ask[c].pc = "queued"
    /\ stuck + Cardinality({d \in Callers : ask[d].pc = "running"}) < Workers
    /\ ask' = [ask EXCEPT ![c].pc = "running"]
    /\ served' = {}
    /\ UNCHANGED <<now, cache, sinkholed, stuck>>

\* getaddrinfo fails, or the name cannot be encoded.
Fails(c) ==
    /\ ask[c].pc = "running"
    /\ StoreFailure(c)
    /\ UNCHANGED <<now, sinkholed, stuck>>

\* The timeout cancels a lookup that is queued; a thread goes on.
TimesOutMutant(c) ==
    /\ ask[c].pc = "running" /\ now >= ask[c].asked + Timeout
    /\ stuck' = stuck + 1
    /\ StoreFailure(c)
    /\ UNCHANGED <<now, sinkholed>>
TimesOut(c) ==
    /\ ask[c].pc \in {"queued", "running"}
    /\ now >= ask[c].asked + Timeout
    /\ stuck' = IF ask[c].pc = "running" THEN stuck + 1 ELSE stuck
    /\ StoreFailure(c)
    /\ UNCHANGED <<now, sinkholed>>

ThreadEnds ==
    /\ stuck > 0
    /\ stuck' = stuck - 1
    /\ served' = {}
    /\ UNCHANGED <<now, cache, sinkholed, ask>>

Resolves(c) ==
    /\ ask[c].pc = "running" \/ ask[c].pc = "doh"
    /\ Store(c, "ips", Ttl)
    /\ UNCHANGED <<now, sinkholed, stuck>>

\* An answer without addresses is not kept.
NoAddress(c) ==
    /\ ask[c].pc = "running"
    /\ ask' = [ask EXCEPT ![c] = Idle]
    /\ served' = {}
    /\ UNCHANGED <<now, cache, sinkholed, stuck>>

\* _mark_sinkholed.
MarkUntil(c) == ask[c].asked + SinkholeTtl
Mark(c) ==
    /\ sinkholed' = Put(Room(sinkholed, ask[c].asked), [host |-> ask[c].host, until |-> MarkUntil(c)])
    /\ ask' = [ask EXCEPT ![c].pc = "marked"]
    /\ served' = {}

\* The resolver answers with nothing but unspecified addresses.
Sinkholes(c) ==
    /\ ask[c].pc = "running"
    /\ IF Doh
       THEN ask' = [ask EXCEPT ![c].pc = "doh"] /\ served' = {} /\ UNCHANGED sinkholed
       ELSE Mark(c)
    /\ UNCHANGED <<now, cache, stuck>>

\* The public resolvers know no address either.
DohFails(c) == ask[c].pc = "doh" /\ Mark(c) /\ UNCHANGED <<now, cache, stuck>>

\* The cache is locked anew, after the table of sinkholed hosts.
StoreSinkhole(c) ==
    /\ ask[c].pc = "marked"
    /\ Store(c, "sinkhole", SinkholeTtl)
    /\ UNCHANGED <<now, sinkholed, stuck>>

\* The task that waits for the pool or for the public resolvers is cancelled.
Leaves(c) ==
    /\ ask[c].pc \in {"queued", "running", "doh"}
    /\ stuck' = IF ask[c].pc = "running" THEN stuck + 1 ELSE stuck
    /\ ask' = [ask EXCEPT ![c] = Idle]
    /\ served' = {}
    /\ UNCHANGED <<now, cache, sinkholed>>

Tick ==
    /\ now < Horizon
    /\ now' = now + 1
    /\ served' = {}
    /\ UNCHANGED <<cache, sinkholed, ask, stuck>>

Ends(c) == TimesOut(c) \/ StoreSinkhole(c) \/ DohFails(c) \/ (ask[c].pc = "doh" /\ Resolves(c))

Next ==
    \/ Tick \/ ThreadEnds
    \/ \E c \in Callers :
           \/ \E h \in Hosts : Check(c, h)
           \/ Begin(c) \/ Fails(c) \/ Resolves(c) \/ NoAddress(c) \/ Sinkholes(c)
           \/ Leaves(c) \/ Ends(c)

Spec == Init /\ [][Next]_vars

\* The clock goes on, the timeout expires and the public resolvers' deadline
\* too; a resolver thread may hang forever.
FairSpec == Spec /\ WF_vars(Tick) /\ \A c \in Callers : WF_vars(Ends(c))

---------------------------------------------------------------------------
(* Correctness *)

\* However long a lookup took, and whatever lookups of the same host stored in
\* the meantime, nothing is served from the cache later after it was asked for
\* than its kind allows: an address for a minute, a failure, which blocks a
\* host that may have recovered, for two seconds.
ServedInTime ==
    \A e \in served :
        now < e.asked + (CASE e.why = "ips" -> Ttl
                           [] e.why = "fail" -> NegativeTtl
                           [] e.why = "sinkhole" -> SinkholeTtl)

\* "so the two never disagree about a host" (ssrf.py:157): a sinkhole answer
\* served from the cache is reported as one by check_host.
SinkholesNamed ==
    \A e \in served :
        e.why = "sinkhole" => Has(sinkholed, e.host) /\ now < Get(sinkholed, e.host).until

\* "A short TTL absorbs that stampede" (ssrf.py:73): a lookup that fails leaves
\* an entry that answers the next check of the host.
StampedeAbsorbed ==
    [][\A c \in Callers :
           Fails(c) \/ TimesOut(c)
           => Has(cache', ask[c].host) /\ now < Get(cache', ask[c].host).until]_vars

\* Every check ends, though all resolver threads hang.
EveryCheckEnds == \A c \in Callers : []<>(ask[c] = Idle)

=============================================================================
