------------------------------- MODULE EdgeHold -------------------------------
(***************************************************************************)
(* The hold on homedepot.com's data gateway: _post, _hold and _release in  *)
(* src/src/fetchaller/homedepot/com.py.  Reads overlap: each looks at the  *)
(* hold before and after its turn at the limiter, is sent, and may be      *)
(* answered or refused after other answers and refusals.                   *)
(***************************************************************************)
EXTENDS Integers

CONSTANTS
    Reads,
    RefusalHold, RefusalHoldMax,   \* _REFUSAL_HOLD and its cap
    ReadTimeout,                       \* of a read; shorter than any hold
    Horizon                        \* bound on the clock

EdgeHoldAssumption ==
    /\ {RefusalHold, RefusalHoldMax, ReadTimeout, Horizon} \subseteq Nat
    /\ 0 < ReadTimeout /\ ReadTimeout < RefusalHold /\ RefusalHold <= RefusalHoldMax

VARIABLES
    now,                                  \* _clock()
    holdUntil, holdLength, holdStarted,   \* _hold_until, _hold_length, _hold_started
    pc,                                   \* where each read is in _post
    sentAt                                \* its sent_at

vars == <<now, holdUntil, holdLength, holdStarted, pc, sentAt>>

TypeOK ==
    /\ {now, holdUntil, holdLength, holdStarted} \subseteq Nat
    /\ pc \in [Reads -> {"idle", "limiter", "sent"}]
    /\ sentAt \in [Reads -> Nat]

\* time.monotonic() is past 0 when the module is loaded.
Init ==
    /\ now = 1
    /\ holdUntil = 0 /\ holdLength = 0 /\ holdStarted = 0
    /\ pc = [r \in Reads |-> "idle"]
    /\ sentAt = [r \in Reads |-> 0]

\* The smaller one, for min.
Least(m, n) == IF m <= n THEN m ELSE n

\* _hold: begin a hold, double the last one, or join the one that is on.
HoldMutant ==
    /\ holdLength' = IF holdLength > 0 THEN Least(RefusalHoldMax, 2 * holdLength) ELSE RefusalHold
    /\ holdUntil' = now + holdLength'
    /\ holdStarted' = now
Hold ==
    IF now < holdUntil THEN UNCHANGED <<holdUntil, holdLength, holdStarted>>
    ELSE /\ holdLength' = IF holdLength > 0 THEN Least(RefusalHoldMax, 2 * holdLength) ELSE RefusalHold
         /\ holdUntil' = now + holdLength'
         /\ holdStarted' = now

\* _release(sent_at)
ReleaseMutant(at) == holdUntil' = 0 /\ holdLength' = 0
Release(at) ==
    IF at < holdStarted THEN UNCHANGED <<holdUntil, holdLength>>
    ELSE holdUntil' = 0 /\ holdLength' = 0

Step(r, to) == pc' = [pc EXCEPT ![r] = to]
Leave(r) == Step(r, "idle") /\ sentAt' = [sentAt EXCEPT ![r] = 0]

\* A read begins: it fails at once, or waits for its turn.
Ask(r) ==
    /\ pc[r] = "idle" /\ holdUntil <= now
    /\ Step(r, "limiter")
    /\ UNCHANGED <<now, holdUntil, holdLength, holdStarted, sentAt>>

\* Its turn: it is sent, unless a hold began meanwhile.
Send(r) ==
    /\ pc[r] = "limiter"
    /\ IF holdUntil <= now
       THEN Step(r, "sent") /\ sentAt' = [sentAt EXCEPT ![r] = now]
       ELSE Leave(r)
    /\ UNCHANGED <<now, holdUntil, holdLength, holdStarted>>

\* An HTTP 200, whatever is in it.
Answered(r) ==
    /\ pc[r] = "sent"
    /\ Release(sentAt[r])
    /\ Leave(r)
    /\ UNCHANGED <<now, holdStarted>>

\* The edge refused, or wafer raised ChallengeDetected or RateLimited.  The
\* clock counts nanoseconds: no other read was sent at this very reading of it.
Refused(r) ==
    /\ pc[r] = "sent"
    /\ \A q \in Reads : pc[q] = "sent" => sentAt[q] < now
    /\ Hold
    /\ Leave(r)
    /\ UNCHANGED now

\* Another status, a network error, a timeout, or a cancellation.
Lost(r) ==
    /\ pc[r] \in {"limiter", "sent"}
    /\ Leave(r)
    /\ UNCHANGED <<now, holdUntil, holdLength, holdStarted>>

\* Time passes, up to the timeout of whatever is in flight.
Tick ==
    /\ now < Horizon
    /\ \A r \in Reads : pc[r] = "sent" => now < sentAt[r] + ReadTimeout
    /\ now' = now + 1
    /\ UNCHANGED <<holdUntil, holdLength, holdStarted, pc, sentAt>>

Next ==
    \/ \E r \in Reads : Ask(r) \/ Send(r) \/ Answered(r) \/ Refused(r) \/ Lost(r)
    \/ Tick

Spec == Init /\ [][Next]_vars

---------------------------------------------------------------------------
(* Correctness *)

\* A hold runs its course: no answer to a read that was on its way when the
\* hold began lifts or shortens it, and none that is sent later can, for it is
\* only sent once the hold is over.
HoldRunsItsCourse == [][now < holdUntil => holdUntil' = holdUntil]_vars

\* A hold is doubled by a probe alone: by the refusal of a read that was sent
\* after the last hold was over, never by reads that were refused together.
DoubledByProbe ==
    [][holdLength > 0 /\ holdLength' > holdLength =>
           \E r \in Reads : pc[r] = "sent" /\ sentAt[r] >= holdUntil]_vars

=============================================================================
