---------------------------- MODULE ResponseCache ----------------------------
(***************************************************************************)
(* The response cache of src/src/fetchaller/cache/response_cache.py: an    *)
(* ordered dictionary of responses with a time to live, least recently     *)
(* used first.  A response that may not be stored removes its URL.         *)
(***************************************************************************)
EXTENDS Integers, SequencesExt, Dictionaries

CONSTANTS
    Urls,
    MaxEntries,   \* max_entries, more than 0
    Ttls,         \* the effective TTLs: the configured one, or a shorter max-age
    Horizon       \* bound on the clock

CacheAssumption ==
    /\ Urls # {}
    /\ MaxEntries \in Nat \ {0}
    /\ Ttls \subseteq Nat

VARIABLES
    now,      \* time.time()
    cache,    \* _cache, as the sequence of its keys
    expires,  \* expires_at of each of them
    used,     \* history: all URLs, the one stored or served last at the end
    called    \* history: the URL of the last call

vars == <<now, cache, expires, used, called>>

TypeOK ==
    /\ now \in Nat
    /\ cache \in Seq(Urls) /\ IsInjective(cache) /\ Len(cache) <= MaxEntries
    /\ expires \in [Urls -> Nat]
    /\ used \in Seq(Urls) /\ IsInjective(used)
    /\ called \in Urls

Init ==
    /\ now = 1
    /\ cache = <<>>
    /\ expires = [u \in Urls |-> 0]
    /\ used = <<>>
    /\ called = CHOOSE u \in Urls : TRUE

Without(s, u) == Kept(s, {i \in 1 .. Len(s) : s[i] # u})
ToEnd(s, u) == Append(Without(s, u), u)

\* get(u): a hit is promoted, an expired entry removed.
Get(u) ==
    /\ called' = u
    /\ IF Contains(cache, u) /\ expires[u] > now
       THEN cache' = ToEnd(cache, u) /\ used' = ToEnd(used, u)
       ELSE cache' = Without(cache, u) /\ UNCHANGED used
    /\ UNCHANGED <<now, expires>>

\* Room for one more in s: expired entries go first, then the one least
\* recently used.
RoomInMutant(s) ==
    LET live == Kept(s, {i \in 1 .. Len(s) : expires[s[i]] > now})
    IN  IF Len(s) <= MaxEntries THEN s
        ELSE IF Len(live) <= MaxEntries THEN live ELSE Tail(live)
RoomIn(s) ==
    LET live == Kept(s, {i \in 1 .. Len(s) : expires[s[i]] > now})
    IN  IF Len(s) < MaxEntries THEN s
        ELSE IF Len(live) < MaxEntries THEN live ELSE Tail(live)

\* set(u): what is replaced makes room itself.
SetMutant(u, ttl) ==
    /\ called' = u
    /\ cache' = ToEnd(RoomIn(cache), u)
    /\ expires' = [expires EXCEPT ![u] = now + ttl]
    /\ used' = ToEnd(used, u)
    /\ UNCHANGED now
Set(u, ttl) ==
    /\ called' = u
    /\ cache' = Append(RoomIn(Without(cache, u)), u)
    /\ expires' = [expires EXCEPT ![u] = now + ttl]
    /\ used' = ToEnd(used, u)
    /\ UNCHANGED now

\* set(u) of what may not be stored, and invalidate(u).
Drop(u) ==
    /\ called' = u
    /\ cache' = Without(cache, u)
    /\ UNCHANGED <<now, expires, used>>

Tick == now < Horizon /\ now' = now + 1 /\ UNCHANGED <<cache, expires, used, called>>

Next == Tick \/ \E u \in Urls : Get(u) \/ Drop(u) \/ \E ttl \in Ttls : Set(u, ttl)

Spec == Init /\ [][Next]_vars

---------------------------------------------------------------------------
(* Correctness *)

Position(s, u) == CHOOSE i \in 1 .. Len(s) : s[i] = u

\* A response that could still be served is only ever given up for another URL
\* when the cache is full of such responses, and then it is the one that was
\* stored or served longest ago: storing a URL again evicts nobody.
EvictsLeastUsed ==
    [][\A u \in Urls :
           Contains(cache, u) /\ ~Contains(cache', u) /\ u # called' /\ expires[u] > now =>
               /\ ~Contains(cache, called')
               /\ Len(cache) = MaxEntries
               /\ \A v \in ToSet(cache) \ {u} :
                      expires[v] > now /\ Position(used, u) < Position(used, v)]_vars

=============================================================================
