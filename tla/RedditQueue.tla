---------------------------- MODULE RedditQueue ----------------------------
(***************************************************************************)
(* The serial request queue of src/src/fetchaller/queue/reddit_queue.py.   *)
(*                                                                         *)
(* Tools enqueue a request and wait on its future.  A processor task takes *)
(* the requests in order, sleeps for the delay that the minute's budget or *)
(* an imposed backoff calls for, runs the request's callback in a task of  *)
(* its own and resolves the future.  A caller may abandon its future at    *)
(* any moment; the caller of a throttled response imposes a backoff, but   *)
(* only when the event loop next runs it.  stop() cancels the processor    *)
(* and drains the queue; enqueue() starts a processor when none runs.      *)
(*                                                                         *)
(* The event loop is single threaded: a coroutine that does not suspend    *)
(* is not interleaved.  A processor that has left an await and has not     *)
(* reached the next one is at pc "head", and then only it moves.           *)
(* Time is an integer clock; asyncio may wake a sleeper late, so Tick is   *)
(* never urgent.                                                           *)
(***************************************************************************)
EXTENDS Integers, Sequences, FiniteSets

CONSTANTS
    Items,             \* the requests; each is enqueued at most once
    Procs,             \* the processor tasks; each is created at most once
    NoItem, NoProc,    \* Python's None
    Window,            \* the rolling minute, in ticks
    MaxPerMinute,      \* QueueConfig.max_requests_per_minute
    Threshold,         \* QueueConfig.proactive_threshold
    MaxQueueWait,      \* QueueConfig.max_queue_wait
    BackoffRateLimit,  \* QueueConfig.backoff_rate_limit, after a 429
    BackoffBlocked,    \* QueueConfig.backoff_blocked, after a 403
    MaxRetryAfter,     \* MAX_RETRY_AFTER_SECONDS
    NoDelay,           \* an absent Retry-After or default_delay
    RetryAfters,       \* the Retry-After values a response may carry
    DefaultDelays,     \* the default_delay values a caller may pass
    Horizon            \* bound on the clock

ASSUME ConfigAssumption ==
    /\ IsFiniteSet(Items)
    /\ NoItem \notin Items
    /\ NoProc \notin Procs
    /\ Window \in Nat \ {0}
    /\ MaxPerMinute \in Nat \ {0}
    /\ Threshold \in 1..MaxPerMinute
    /\ MaxQueueWait \in Nat
    /\ BackoffRateLimit \in Nat
    /\ BackoffBlocked \in Nat
    /\ MaxRetryAfter \in Nat
    /\ NoDelay \notin Nat
    /\ RetryAfters \subseteq Nat \cup {NoDelay}
    /\ DefaultDelays \subseteq Nat \cup {NoDelay}
    /\ Horizon \in Nat

VARIABLES
    now,           \* time.monotonic()
    queue,         \* _queue
    running,       \* _running
    task,          \* _task
    backoffUntil,  \* _backoff_until
    startedAt,     \* _request_times, by the request each entry was made for
    stopping,      \* the processor a suspended stop() waits for
    interrupted,   \* processors with an undelivered cancel()
    pc, held,      \* where each processor is, and its local "item"
    wake,          \* when its asyncio.sleep ends
    future,        \* QueueItem.future of each request
    enqueuedAt,    \* QueueItem.enqueued_at
    call,          \* the callback task of each request
    throttled      \* callers holding a 429 or 403 they have not acted on

procVars == <<stopping, interrupted, pc, held, wake>>
itemVars == <<future, enqueuedAt, call, startedAt, throttled>>
vars == <<now, queue, running, task, backoffUntil, procVars, itemVars>>

Resolved == {"result", "error", "expired", "cancelled"}
Outcome == {"ok", "throttled", "error", "cancelled"}

TypeOK ==
    /\ now \in Nat
    /\ queue \in Seq(Items)
    /\ running \in BOOLEAN
    /\ task \in Procs \cup {NoProc}
    /\ backoffUntil \in Nat
    /\ startedAt \in [Items -> Nat]
    /\ stopping \in Procs \cup {NoProc}
    /\ interrupted \in SUBSET Procs
    /\ pc \in [Procs -> {"unused", "created", "head", "getting", "sleeping", "calling", "done"}]
    /\ held \in [Procs -> Items \cup {NoItem}]
    /\ wake \in [Procs -> Nat]
    /\ future \in [Items -> {"idle", "pending"} \cup Resolved]
    /\ enqueuedAt \in [Items -> Nat]
    /\ call \in [Items -> {"none", "running", "cancelling", "ended"} \cup Outcome]
    /\ throttled \in SUBSET Items

Init ==
    /\ now = 0
    /\ queue = <<>>
    /\ running = FALSE
    /\ task = NoProc
    /\ backoffUntil = 0
    /\ startedAt = [i \in Items |-> 0]
    /\ stopping = NoProc
    /\ interrupted = {}
    /\ pc = [p \in Procs |-> "unused"]
    /\ held = [p \in Procs |-> NoItem]
    /\ wake = [p \in Procs |-> 0]
    /\ future = [i \in Items |-> "idle"]
    /\ enqueuedAt = [i \in Items |-> 0]
    /\ call = [i \in Items |-> "none"]
    /\ throttled = {}

---------------------------------------------------------------------------
(* Helpers *)

\* No processor is between two awaits, so another coroutine may run.
Yielded == \A p \in Procs : pc[p] # "head"

\* Processor p may resume, or go on, and has no cancellation to deliver.
Scheduled(p) ==
    /\ p \notin interrupted
    /\ \A q \in Procs : pc[q] = "head" => q = p

\* The callback task of i is not done; one that cancelled itself is.
InFlightMutant(i) == call[i] \in {"running", "cancelling", "cancelled"}
InFlight(i) == call[i] \in {"running", "cancelling"}

Later(a, b) == IF a >= b THEN a ELSE b
Sooner(a, b) == IF a <= b THEN a ELSE b

\* future.done() is false: the caller still waits.
WantedMutant(i) == TRUE
Wanted(i) == future[i] = "pending"

\* The future of i is resolved with v, unless it is done already.
SettledMutant(i, v) == [future EXCEPT ![i] = v]
Settled(i, v) == [future EXCEPT ![i] = IF @ = "pending" THEN v ELSE @]

\* Every future of S that is still pending is cancelled.
CancelPending(S) ==
    [i \in Items |-> IF i \in S /\ future[i] = "pending" THEN "cancelled" ELSE future[i]]

Queued == {queue[k] : k \in 1..Len(queue)}

\* _count_recent_requests: the entries that are not older than the minute.
Recent == {i \in Items : call[i] # "none" /\ startedAt[i] + Window >= now}

\* Ticks until the oldest recent request leaves the window.
UntilReset ==
    LET oldest == CHOOSE t \in {startedAt[i] : i \in Recent} :
                      \A i \in Recent : t <= startedAt[i]
    IN  oldest + Window - now

LimitReachedMutant(recent) == recent > MaxPerMinute
LimitReached(recent) == recent >= MaxPerMinute

\* _calculate_delay.  Fractions of a tick are rounded up; the 0.1 s buffer
\* is the tick after the oldest request has left the window.
CalculateDelay ==
    LET recent == Cardinality(Recent)
        spread == 2 * (MaxPerMinute - recent)
    IN  IF backoffUntil > now THEN backoffUntil - now
        ELSE IF LimitReached(recent) THEN UntilReset + 1
        ELSE IF recent >= Threshold /\ spread > 0 THEN (UntilReset + spread - 1) \div spread
        ELSE 0

\* The delay set_backoff imposes: a Retry-After wins over the caller's
\* default, which wins over the configuration.
BackoffDelay(status, retryAfter, defaultDelay) ==
    IF retryAfter # NoDelay THEN Sooner(MaxRetryAfter, retryAfter)
    ELSE IF defaultDelay # NoDelay THEN Sooner(MaxRetryAfter, defaultDelay)
    ELSE IF status = 429 THEN BackoffRateLimit
    ELSE BackoffBlocked

---------------------------------------------------------------------------
(* Callers *)

Appended(i) == Append(queue, i)

\* enqueue, up to the wait on the future: start a processor unless one is
\* believed to run, then append.  The bound on the clock leaves every
\* request the time it may be held for.
Enqueue(i) ==
    /\ Yielded
    /\ future[i] = "idle"
    /\ now + MaxQueueWait <= Horizon
    /\ IF running
       THEN UNCHANGED <<running, task, pc>>
       ELSE \E p \in Procs :
                /\ pc[p] = "unused"
                /\ running' = TRUE
                /\ task' = p
                /\ pc' = [pc EXCEPT ![p] = "created"]
    /\ queue' = Appended(i)
    /\ future' = [future EXCEPT ![i] = "pending"]
    /\ enqueuedAt' = [enqueuedAt EXCEPT ![i] = now]
    /\ UNCHANGED <<now, backoffUntil, stopping, interrupted, held, wake,
                   call, startedAt, throttled>>

\* The caller's deadline passes, or its own task is cancelled.
Abandon(i) ==
    /\ Yielded
    /\ future[i] = "pending"
    /\ future' = [future EXCEPT ![i] = "cancelled"]
    /\ UNCHANGED <<now, queue, running, task, backoffUntil, procVars,
                   enqueuedAt, call, startedAt, throttled>>

\* set_backoff, called by the tool that received a 429 or a 403.
SetBackoff(i) ==
    /\ Yielded
    /\ i \in throttled
    /\ \E status \in {429, 403}, ra \in RetryAfters, dd \in DefaultDelays :
           backoffUntil' = Later(backoffUntil, now + BackoffDelay(status, ra, dd))
    /\ throttled' = throttled \ {i}
    /\ UNCHANGED <<now, queue, running, task, procVars,
                   future, enqueuedAt, call, startedAt>>

\* The caller was cancelled between the answer and its resumption, or its
\* tool takes the 403 for a content answer: no backoff is imposed.
Forget(i) ==
    /\ Yielded
    /\ i \in throttled
    /\ throttled' = throttled \ {i}
    /\ UNCHANGED <<now, queue, running, task, backoffUntil, procVars,
                   future, enqueuedAt, call, startedAt>>

\* The callback task ends by itself, or ends some time after it was
\* cancelled: a cancelled network operation need not stop at once.
Return(i) ==
    /\ Yielded
    /\ \/ /\ call[i] = "running"
          /\ \E o \in Outcome : call' = [call EXCEPT ![i] = o]
       \/ /\ call[i] = "cancelling"
          /\ call' = [call EXCEPT ![i] = "ended"]
    /\ UNCHANGED <<now, queue, running, task, backoffUntil, procVars,
                   future, enqueuedAt, startedAt, throttled>>

---------------------------------------------------------------------------
(* The processor task, _process_queue *)

\* The task runs for the first time.  The event loop is first in, first out:
\* a processor that was cancelled before p was created ends before p begins.
Begin(p) ==
    /\ Scheduled(p)
    /\ \A q \in interrupted : pc[q] = "created"
    /\ pc[p] = "created"
    /\ pc' = [pc EXCEPT ![p] = "head"]
    /\ UNCHANGED <<now, queue, running, task, backoffUntil,
                   stopping, interrupted, held, wake, itemVars>>

\* The loop ends: _running is read at its head, which an idle processor
\* reaches again within the second that it waits for an item.
Retire(p) ==
    /\ Scheduled(p)
    /\ pc[p] \in {"head", "getting"}
    /\ ~running
    /\ pc' = [pc EXCEPT ![p] = "done"]
    /\ UNCHANGED <<now, queue, running, task, backoffUntil,
                   stopping, interrupted, held, wake, itemVars>>

\* The queue is empty: suspend in _queue.get().
Park(p) ==
    /\ Scheduled(p)
    /\ pc[p] = "head"
    /\ running
    /\ queue = <<>>
    /\ pc' = [pc EXCEPT ![p] = "getting"]
    /\ UNCHANGED <<now, queue, running, task, backoffUntil,
                   stopping, interrupted, held, wake, itemVars>>

\* _queue.get() yields the next item i.  A suspended get() does not look at
\* _running again.
Dequeue(p, i) ==
    /\ Scheduled(p)
    /\ \/ pc[p] = "getting"
       \/ pc[p] = "head" /\ running
    /\ queue # <<>>
    /\ i = Head(queue)
    /\ queue' = Tail(queue)
    /\ UNCHANGED <<now, running, task, backoffUntil, stopping, interrupted>>

WaitedMutant(i) == 0
Waited(i) == now - enqueuedAt[i]

\* The caller has gone: no request is spent on it.
SkipAbandoned(p, i) ==
    /\ Dequeue(p, i)
    /\ ~Wanted(i)
    /\ pc' = [pc EXCEPT ![p] = "head"]
    /\ UNCHANGED <<held, wake, itemVars>>

\* The time already waited and the delay exceed max_queue_wait.
Expire(p, i) ==
    /\ Dequeue(p, i)
    /\ Wanted(i)
    /\ Waited(i) + CalculateDelay > MaxQueueWait
    /\ future' = Settled(i, "expired")
    /\ pc' = [pc EXCEPT ![p] = "head"]
    /\ UNCHANGED <<held, wake, enqueuedAt, call, startedAt, throttled>>

\* Sleep for the delay, holding the item.
Sleep(p, i) ==
    /\ Dequeue(p, i)
    /\ Wanted(i)
    /\ Waited(i) + CalculateDelay <= MaxQueueWait
    /\ CalculateDelay > 0
    /\ pc' = [pc EXCEPT ![p] = "sleeping"]
    /\ held' = [held EXCEPT ![p] = i]
    /\ wake' = [wake EXCEPT ![p] = now + CalculateDelay]
    /\ UNCHANGED itemVars

\* Record the request and run its callback in a task of its own.
StartCall(p, i) ==
    /\ startedAt' = [startedAt EXCEPT ![i] = now]
    /\ call' = [call EXCEPT ![i] = "running"]
    /\ pc' = [pc EXCEPT ![p] = "calling"]
    /\ held' = [held EXCEPT ![p] = i]
    /\ wake' = [wake EXCEPT ![p] = 0]
    /\ UNCHANGED <<future, enqueuedAt, throttled>>

\* No delay is due.
StartNow(p, i) ==
    /\ Dequeue(p, i)
    /\ Wanted(i)
    /\ Waited(i) + CalculateDelay <= MaxQueueWait
    /\ CalculateDelay = 0
    /\ StartCall(p, i)

\* The sleep ends.
Awake(p) ==
    /\ Scheduled(p)
    /\ pc[p] = "sleeping"
    /\ now >= wake[p]

\* After the sleep only the future is looked at again.
StartAfterSleep(p, i) ==
    /\ Awake(p)
    /\ i = held[p]
    /\ Wanted(i)
    /\ StartCall(p, i)
    /\ UNCHANGED <<now, queue, running, task, backoffUntil, stopping, interrupted>>

\* The caller left during the sleep.
DropAfterSleep(p, i) ==
    /\ Awake(p)
    /\ i = held[p]
    /\ ~Wanted(i)
    /\ pc' = [pc EXCEPT ![p] = "head"]
    /\ held' = [held EXCEPT ![p] = NoItem]
    /\ wake' = [wake EXCEPT ![p] = 0]
    /\ UNCHANGED <<now, queue, running, task, backoffUntil, stopping, interrupted, itemVars>>

\* What the future becomes when the callback ended with outcome o.
Answer(o) ==
    CASE o \in {"ok", "throttled"} -> "result"
      [] o = "error" -> "error"
      [] OTHER -> "cancelled"

\* The callback has ended: its outcome goes to the future unless the caller
\* has gone.  Nobody looks at the callback again ("ended").
Complete(p, i) ==
    /\ Scheduled(p)
    /\ pc[p] = "calling"
    /\ i = held[p]
    /\ ~InFlight(i)
    /\ pc' = [pc EXCEPT ![p] = "head"]
    /\ held' = [held EXCEPT ![p] = NoItem]
    /\ future' = Settled(i, Answer(call[i]))
    /\ throttled' = IF Wanted(i) /\ call[i] = "throttled"
                    THEN throttled \cup {i} ELSE throttled
    /\ call' = [call EXCEPT ![i] = "ended"]
    /\ UNCHANGED <<now, queue, running, task, backoffUntil, stopping, interrupted, wake,
                   enqueuedAt, startedAt>>

CancelledCallMutant(i) == call
CancelledCall(i) == [call EXCEPT ![i] = "cancelling"]

\* The caller has gone while the callback runs: cancel the callback, do not
\* wait for it, go on.
Detach(p, i) ==
    /\ Scheduled(p)
    /\ pc[p] = "calling"
    /\ i = held[p]
    /\ call[i] = "running"
    /\ ~Wanted(i)
    /\ call' = CancelledCall(i)
    /\ pc' = [pc EXCEPT ![p] = "head"]
    /\ held' = [held EXCEPT ![p] = NoItem]
    /\ UNCHANGED <<now, queue, running, task, backoffUntil, stopping, interrupted, wake,
                   future, enqueuedAt, startedAt, throttled>>

\* stop()'s cancellation is delivered at the await p is suspended in: the
\* callback is cancelled, the held future too, and the loop is left.
Interrupt(p) ==
    /\ Yielded
    /\ p \in interrupted
    /\ pc[p] \in {"created", "getting", "sleeping", "calling"}
    /\ interrupted' = interrupted \ {p}
    /\ pc' = [pc EXCEPT ![p] = "done"]
    /\ held' = [held EXCEPT ![p] = NoItem]
    /\ wake' = [wake EXCEPT ![p] = 0]
    /\ future' = CancelPending({held[p]})
    /\ call' = [i \in Items |->
                  IF pc[p] = "calling" /\ i = held[p] /\ call[i] = "running"
                  THEN "cancelling" ELSE call[i]]
    /\ UNCHANGED <<now, queue, running, task, backoffUntil, stopping,
                   enqueuedAt, startedAt, throttled>>

---------------------------------------------------------------------------
(* stop() *)

DrainMutant ==
    /\ queue' = <<>>
    /\ UNCHANGED future

\* The end of stop(): every queued future is cancelled.
Drain ==
    /\ queue' = <<>>
    /\ future' = CancelPending(Queued)

\* With a processor: cancel it and wait for it.
StopBegin ==
    /\ Yielded
    /\ stopping = NoProc
    /\ task # NoProc
    /\ running' = FALSE
    /\ stopping' = task
    /\ interrupted' = interrupted \cup {task}
    /\ UNCHANGED <<now, queue, task, backoffUntil, pc, held, wake, itemVars>>

\* Without one: stop() does not suspend.
StopIdle ==
    /\ Yielded
    /\ stopping = NoProc
    /\ task = NoProc
    /\ running' = FALSE
    /\ Drain
    /\ UNCHANGED <<now, task, backoffUntil, procVars, enqueuedAt, call, startedAt, throttled>>

\* The awaited processor has ended, which takes it one step of the loop, so
\* the one second of grace never runs out.  Whatever processor _task names
\* by now is forgotten.
StopFinish ==
    /\ Yielded
    /\ stopping # NoProc
    /\ pc[stopping] = "done"
    /\ stopping' = NoProc
    /\ task' = NoProc
    /\ Drain
    /\ UNCHANGED <<now, running, backoffUntil, interrupted, pc, held, wake,
                   enqueuedAt, call, startedAt, throttled>>

---------------------------------------------------------------------------
Tick ==
    /\ Yielded
    /\ now < Horizon
    /\ now' = now + 1
    /\ UNCHANGED <<queue, running, task, backoffUntil, procVars, itemVars>>

CallerStep(i) == Enqueue(i) \/ Abandon(i) \/ SetBackoff(i) \/ Forget(i)

ItemStep(p, i) ==
    \/ SkipAbandoned(p, i) \/ Expire(p, i) \/ Sleep(p, i) \/ StartNow(p, i)
    \/ StartAfterSleep(p, i) \/ DropAfterSleep(p, i)
    \/ Complete(p, i) \/ Detach(p, i)

\* A processor works, and is stopped.
Works(p) == Begin(p) \/ Park(p) \/ \E i \in Items : ItemStep(p, i)
Ends(p) == Retire(p) \/ Interrupt(p)
ProcStep(p) == Works(p) \/ Ends(p)

Stop == StopBegin \/ StopIdle \/ StopFinish

\* The processors, the callbacks, their callers and the clock.
Serve ==
    \/ \E i \in Items : CallerStep(i) \/ Return(i)
    \/ \E p \in Procs : Works(p)
    \/ Tick

Next == Serve \/ Stop \/ \E p \in Procs : Ends(p)

Spec == Init /\ [][Next]_vars

\* A server that is never stopped.
ServeSpec == Init /\ [][Serve]_vars

(***************************************************************************)
(* The event loop runs every ready coroutine and the clock advances.  A    *)
(* callback ends: every one of them is a wafer request under a deadline.   *)
(* Callers owe nothing.                                                    *)
(***************************************************************************)
Fairness ==
    /\ \A p \in Procs : WF_vars(ProcStep(p))
    /\ \A i \in Items : WF_vars(Return(i))
    /\ WF_vars(StopFinish)
    /\ WF_vars(Tick)

FairSpec == Spec /\ Fairness

---------------------------------------------------------------------------
(* Correctness *)

\* The processors that still work through the queue.
Live(p) == pc[p] \in {"created", "head", "getting", "sleeping", "calling"}

Serving == \E p \in Procs : Live(p) /\ p \notin interrupted

\* No caller is forgotten, however stop() and enqueue() interleave: a future
\* that is pending is queued or in the hands of a processor, and a request
\* that is queued has a processor that will take it or a stop() that is
\* about to cancel it (stop, enqueue, the CancelledError handler).
NoLostCaller ==
    /\ \A i \in Items : future[i] = "pending" =>
           \/ i \in Queued
           \/ \E p \in Procs : held[p] = i /\ pc[p] \in {"sleeping", "calling"}
    /\ queue # <<>> => stopping # NoProc \/ Serving

\* The strengthening of NoLostCaller that every step preserves: _running
\* means that some processor really serves, and what is queued while it is
\* false is about to be drained.
ServiceInv ==
    /\ running => Serving
    /\ queue # <<>> => stopping # NoProc \/ running
    /\ task # NoProc => pc[task] # "unused"
    /\ \A p \in interrupted : pc[p] # "unused"
    /\ \A i \in Items : future[i] = "pending" =>
           \/ i \in Queued
           \/ \E p \in Procs : held[p] = i /\ pc[p] \in {"sleeping", "calling"}

\* An answer is final: no late result, expiry or drain replaces it, although
\* the caller, the processor and stop() all resolve futures.
AnswerIsFinal ==
    [][\A i \in Items : future[i] \in Resolved => future'[i] = future[i]]_vars

\* A request whose caller has gone costs no quota: at the moment it is sent
\* its caller still waits, also after the sleep it was held for.
NotSentWhenAbandoned ==
    [][\A i \in Items : call[i] = "none" /\ call'[i] = "running" => future[i] = "pending"]_vars

\* "Runs them one at a time": no two callbacks run that nobody cancelled.
OneAtATime ==
    \A i, j \in Items : call[i] = "running" /\ call[j] = "running" => i = j

\* No caller is held past max_queue_wait by a delay: a sleeping request wakes
\* within the bound counted from its enqueue, not from its dequeue.
SleepWithinBound ==
    \A p \in Procs : pc[p] = "sleeping" =>
        wake[p] <= enqueuedAt[held[p]] + MaxQueueWait

\* The rolling budget: within any minute at most MaxPerMinute requests start.
WithinBudget ==
    Cardinality({i \in Items : call[i] # "none" /\ now - startedAt[i] < Window})
        <= MaxPerMinute

\* A backoff holds every request that has not started.
BackoffHolds ==
    [][\A i \in Items : call[i] = "none" /\ call'[i] = "running" => now >= backoffUntil]_vars

\* When stop() returns the processors have stopped.
StopStops ==
    [][stopping # NoProc /\ stopping' = NoProc => \A p \in Procs : ~Live(p)']_vars

\* Every caller is answered in the end.
EveryCallerAnswered ==
    \A i \in Items : []<>(future[i] # "pending")

=============================================================================
