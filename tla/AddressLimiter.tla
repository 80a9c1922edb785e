---------------------------- MODULE AddressLimiter ----------------------------
(***************************************************************************)
(* The HTTP server's request limiter: RateLimiter in                       *)
(* src/src/fetchaller/http/middleware.py.  A bounded table keeps a sliding *)
(* window per address; addresses are forgotten by a cleanup that runs at   *)
(* most every Throttle, so that a new address may find the table full.     *)
(***************************************************************************)
EXTENDS Integers, Sequences, FiniteSets

CONSTANTS
    Addresses,
    Limit,        \* requests_per_minute
    MaxEntries,   \* max_entries
    Window,       \* sixty seconds
    Throttle,     \* the thirty seconds between two cleanups
    Horizon       \* bound on the clock

LimitsAssumption ==
    /\ Limit \in Nat \ {0}
    /\ MaxEntries \in Nat
    /\ {Window, Throttle} \subseteq Nat

VARIABLES
    now,          \* time.monotonic()
    entries,      \* _entries: the requests of each address that is remembered
    lastCleanup,  \* _last_cleanup
    verdict,      \* the last answer, and when it was given
    allowed       \* history: each address's allowed requests in the window

vars == <<now, entries, lastCleanup, verdict, allowed>>

Known == DOMAIN entries

TypeOK ==
    /\ now \in Nat
    /\ Known \subseteq Addresses /\ Cardinality(Known) <= MaxEntries
    /\ \A a \in Known : Len(entries[a]) \in 1 .. Limit
    /\ lastCleanup \in 0 .. now
    /\ verdict \in [at : 0 .. now, is : {"none", "allowed", "quota", "table"}]

Init ==
    /\ now = 1
    /\ entries = <<>>
    /\ lastCleanup = 1
    /\ verdict = [at |-> 0, is |-> "none"]
    /\ allowed = [a \in Addresses |-> <<>>]

Last(s) == s[Len(s)]

\* The deque s once all that is older than the cutoff is popped from its left.
Older(s, cutoff) ==
    CHOOSE k \in 0 .. Len(s) :
        /\ \A i \in 1 .. k : s[i] < cutoff
        /\ k < Len(s) => s[k + 1] >= cutoff
Since(s, cutoff) == SubSeq(s, Older(s, cutoff) + 1, Len(s))

\* _cleanup: what is left of the table es, not more often than it may run.
Due == now - lastCleanup >= Throttle
StaleMutant(s) == Head(s) < now - Window
Stale(s) == Last(s) < now - Window
Cleaned(es) ==
    IF Due THEN [a \in {b \in DOMAIN es : ~Stale(es[b])} |-> es[a]] ELSE es
CleanedUp == lastCleanup' = IF Due THEN now ELSE lastCleanup

Answer(is) == verdict' = [at |-> now, is |-> is]

\* The sliding window of address a in the table es.
Counted(a, es) ==
    LET s == IF a \in DOMAIN es THEN Since(es[a], now - Window) ELSE <<>>
        Put(t) == [b \in DOMAIN es \cup {a} |-> IF b = a THEN t ELSE es[b]]
    IN  IF Len(s) >= Limit
        THEN /\ entries' = Put(s)
             /\ Answer("quota")
             /\ UNCHANGED <<lastCleanup, allowed>>
        ELSE /\ entries' = Cleaned(Put(Append(s, now)))
             /\ CleanedUp
             /\ Answer("allowed")
             /\ allowed' = [allowed EXCEPT ![a] = Append(@, now)]

\* A new address needs room in the table, which a cleanup may make.
RoomMutant(a) == entries
Room(a) == IF a \notin Known /\ Cardinality(Known) >= MaxEntries THEN Cleaned(entries) ELSE entries

Check(a) ==
    /\ IF a \notin Known /\ Cardinality(DOMAIN Room(a)) >= MaxEntries
       THEN /\ entries' = Room(a)
            /\ CleanedUp
            /\ Answer("table")
            /\ UNCHANGED allowed
       ELSE Counted(a, Room(a))
    /\ UNCHANGED now

Tick ==
    /\ now < Horizon
    /\ now' = now + 1
    /\ allowed' = [a \in Addresses |-> Since(allowed[a], now' - Window)]
    /\ UNCHANGED <<entries, lastCleanup, verdict>>

Next == Tick \/ \E a \in Addresses : Check(a)

Spec == Init /\ [][Next]_vars

---------------------------------------------------------------------------
(* Correctness *)

\* No address is allowed more than Limit requests in any window, though the
\* cleanup forgets addresses and a new entry begins with nothing.
WithinQuota == \A a \in Addresses : Len(allowed[a]) <= Limit

\* A new address is turned away for want of room only while the table is full
\* of addresses that were active within a window and the time between two
\* cleanups.
TurnedAwayByActive ==
    verdict.is = "table" /\ verdict.at = now =>
        \A a \in Known : Last(entries[a]) >= now - Window - Throttle

=============================================================================
