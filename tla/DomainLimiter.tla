---------------------------- MODULE DomainLimiter ----------------------------
(***************************************************************************)
(* The per-domain rate limiter of src/src/fetchaller/ratelimit.py: callers *)
(* of wait() take an asyncio.Lock in turn and sleep inside it until their  *)
(* spacing and any server-requested delay are over.  defer() may be called *)
(* at any time, a caller may be cancelled in the queue or in its sleep.    *)
(* PacedGate is what it promises.                                          *)
(***************************************************************************)
EXTENDS Naturals

CONSTANTS
    Callers, NoCaller,
    MinInterval,   \* min_interval
    Jitter,        \* the values random.uniform may return
    Extra,         \* the extra_delay of each caller
    Delays,        \* the delays defer() may be given, negative ones being 0
    LastCall,      \* bound: wait() and defer() are called until then
    Horizon        \* bound on the clock

ASSUME LimiterAssumption ==
    /\ NoCaller \notin Callers
    /\ MinInterval \in Nat
    /\ Jitter \subseteq Nat
    /\ Extra \in [Callers -> Nat]
    /\ Delays \subseteq Nat
    /\ LastCall \in Nat
    /\ Horizon \in Nat \ {0}

VARIABLES
    now,           \* time.monotonic(), never 0
    lastTime,      \* _last_time
    backoffUntil,  \* _backoff_until
    pc,            \* where each caller is in wait()
    ticket,        \* the order in which the callers asked for the lock
    issued,        \* how many did
    sleeper,       \* the caller that holds the lock and sleeps
    spacing,       \* its spacing_target
    wakeAt         \* the end of its sleep

vars == <<now, lastTime, backoffUntil, pc, ticket, issued, sleeper, spacing, wakeAt>>

TypeOK ==
    /\ {now, lastTime, backoffUntil, issued, spacing, wakeAt} \subseteq Nat
    /\ pc \in [Callers -> {"new", "waiting", "sleeping", "passed", "cancelled"}]
    /\ ticket \in [Callers -> Nat]
    /\ sleeper \in Callers \cup {NoCaller}
    /\ \A r \in Callers : pc[r] = "sleeping" <=> sleeper = r

Init ==
    /\ now = 1
    /\ lastTime = 0
    /\ backoffUntil = 0
    /\ pc = [r \in Callers |-> "new"]
    /\ ticket = [r \in Callers |-> 0]
    /\ issued = 0
    /\ sleeper = NoCaller
    /\ spacing = 0
    /\ wakeAt = 0

Later(a, b) == IF a >= b THEN a ELSE b

\* The spacing target of a caller with extra delay e and jitter j.
SpacingMutant(e, j) == IF lastTime > 0 THEN now + MinInterval + e + j ELSE 0
Spacing(e, j) == IF lastTime > 0 THEN lastTime + MinInterval + e + j ELSE 0

\* wait(): ask for the lock.
Arrive(r) ==
    /\ now <= LastCall
    /\ pc[r] = "new"
    /\ pc' = [pc EXCEPT ![r] = "waiting"]
    /\ ticket' = [ticket EXCEPT ![r] = issued]
    /\ issued' = issued + 1
    /\ UNCHANGED <<now, lastTime, backoffUntil, sleeper, spacing, wakeAt>>

\* One turn of the loop under the lock, with spacing target s: pass and
\* release the lock, or sleep until the later of both targets.
Turn(r, s) ==
    LET target == Later(s, backoffUntil)
    IN  IF target <= now
        THEN /\ pc' = [pc EXCEPT ![r] = "passed"]
             /\ lastTime' = now
             /\ sleeper' = NoCaller
             /\ UNCHANGED <<spacing, wakeAt>>
        ELSE /\ pc' = [pc EXCEPT ![r] = "sleeping"]
             /\ sleeper' = r
             /\ spacing' = s
             /\ wakeAt' = target
             /\ UNCHANGED lastTime

Waiting == {r \in Callers : pc[r] = "waiting"}

\* The first waiter gets the lock and draws its jitter.
EnterMutant(r) ==
    /\ sleeper = NoCaller
    /\ r \in Waiting
    /\ \A q \in Callers : pc[q] \in {"waiting", "cancelled"} => ticket[r] <= ticket[q]
    /\ \E j \in Jitter : Turn(r, Spacing(Extra[r], j))
    /\ UNCHANGED <<now, backoffUntil, ticket, issued>>
Enter(r) ==
    /\ sleeper = NoCaller
    /\ r \in Waiting
    /\ \A q \in Waiting : ticket[r] <= ticket[q]
    /\ \E j \in Jitter : Turn(r, Spacing(Extra[r], j))
    /\ UNCHANGED <<now, backoffUntil, ticket, issued>>

\* The sleep is over: another turn, with the spacing target of the first.
WakeMutant(r) ==
    /\ sleeper = r
    /\ wakeAt <= now
    /\ pc' = [pc EXCEPT ![r] = "passed"]
    /\ lastTime' = now
    /\ sleeper' = NoCaller
    /\ UNCHANGED <<now, backoffUntil, ticket, issued, spacing, wakeAt>>
Wake(r) ==
    /\ sleeper = r /\ pc[r] = "sleeping"
    /\ wakeAt <= now
    /\ Turn(r, spacing)
    /\ UNCHANGED <<now, backoffUntil, ticket, issued>>

\* A caller is cancelled in the lock's queue or in its sleep, where async
\* with releases the lock; _last_time keeps its value.
CancelMutant(r) ==
    /\ pc[r] \in {"waiting", "sleeping"}
    /\ pc' = [pc EXCEPT ![r] = "cancelled"]
    /\ UNCHANGED <<now, lastTime, backoffUntil, ticket, issued, sleeper, spacing, wakeAt>>
Cancel(r) ==
    /\ pc[r] \in {"waiting", "sleeping"}
    /\ pc' = [pc EXCEPT ![r] = "cancelled"]
    /\ sleeper' = IF sleeper = r THEN NoCaller ELSE sleeper
    /\ UNCHANGED <<now, lastTime, backoffUntil, ticket, issued, spacing, wakeAt>>

\* defer(seconds)
Defer(s) ==
    /\ now <= LastCall
    /\ backoffUntil' = Later(backoffUntil, now + s)
    /\ UNCHANGED <<now, lastTime, pc, ticket, issued, sleeper, spacing, wakeAt>>

Tick ==
    /\ now < Horizon
    /\ now' = now + 1
    /\ UNCHANGED <<lastTime, backoffUntil, pc, ticket, issued, sleeper, spacing, wakeAt>>

Next ==
    \/ \E r \in Callers : Arrive(r) \/ Enter(r) \/ Wake(r) \/ Cancel(r)
    \/ \E s \in Delays : Defer(s)
    \/ Tick

Spec == Init /\ [][Next]_vars

\* Something in the event loop is due.
Due == IF sleeper = NoCaller THEN Waiting # {} ELSE wakeAt <= now

\* The event loop does what is due within a tick of the clock and resumes
\* whoever can go on.
FairSpec ==
    /\ Init /\ [][Next /\ (Due => now' = now)]_vars
    /\ WF_vars(Tick /\ ~Due)
    /\ WF_vars(\E r \in Callers : Enter(r) \/ Wake(r))

---------------------------------------------------------------------------
(* Correctness *)

Passed == {r \in Callers : pc[r] = "passed"}

\* The limiter keeps the gate's promise: spacing between any two passes, and
\* no pass before the end of a delay, though the delay be imposed while the
\* caller that passes next is already asleep.
Gate == INSTANCE PacedGate WITH last <- lastTime, held <- backoffUntil, served <- Passed
ImplementsGate == Gate!Spec

\* Nobody sleeps longer than asked for: the sleep never adds up the spacing
\* of a turn, or the time spent in the queue, to the earlier pass.
NeverOversleeps ==
    sleeper # NoCaller =>
        \E j \in Jitter :
            wakeAt <= Later(backoffUntil, lastTime + MinInterval + Extra[sleeper] + j)

\* Everyone in the queue gets through, unless it gives up itself: neither a
\* pass nor a cancellation leaves the lock taken.  Each caller comes once, so
\* it is enough that again and again nobody waits or sleeps.
EveryoneGoes == []<>(\A r \in Callers : pc[r] \notin {"waiting", "sleeping"})

=============================================================================
