----------------------------- MODULE ParserSlots -----------------------------
(***************************************************************************)
(* The slots that bound how many disposable parser processes live at once  *)
(* (src/src/fetchaller/content/_slots.py, _isolated.py, html.py, pdf.py).  *)
(*                                                                         *)
(* A call takes a slot of a semaphore, has a pool thread start the child,  *)
(* polls for the result, and has a pool thread stop the child.  It may be  *)
(* cancelled at every await, by its own asyncio.timeout or by its caller,  *)
(* while pool and cleanup threads go on.  A pool job that no thread picked *)
(* up when its await is cancelled never runs.                              *)
(*                                                                         *)
(* The three boundaries differ in one place.  _isolated.py hands the slot  *)
(* to the start thread when the call is cancelled while it starts a child  *)
(* (StartHoldsSlot); html.py and pdf.py do so once the child has started.  *)
(***************************************************************************)
EXTENDS Naturals, FiniteSets

CONSTANTS
    Calls,           \* the calls of run_isolated, html_to_markdown or extract_pdf
    MaxProcesses,    \* the semaphore's initial value
    StartHoldsSlot   \* _start_process is given the SlotHandle

\* What the theorems assume of the constants.
SlotsAssumption ==
    /\ IsFiniteSet(Calls)
    /\ MaxProcesses \in Nat \ {0}
    /\ StartHoldsSlot \in BOOLEAN

VARIABLES
    free,      \* the semaphore's value
    returning, \* calls whose slot is on its way back, in call_soon_threadsafe
    call       \* what each call, its threads and its child do

vars == <<free, returning, call>>

\* The awaiting task: at acquire, at the start thread, at the result, at the
\* stop thread, gone.
TaskStates == {"acquire", "start", "poll", "stop", "left"}
\* The start thread: "forked" once the child runs but the thread has not
\* taken state_lock, "reaping" when it found the call cancelled.
StartStates == {"none", "queued", "running", "forked", "reaping", "done", "failed", "dropped"}
StopStates == {"none", "queued", "running", "done", "dropped"}
\* Who must release the slot: SlotHandle's two flags.
SlotStates == {"none", "task", "thread", "released"}

Call == [task : TaskStates, start : StartStates, stop : StopStates,
         cleaner : BOOLEAN,     \* a cleanup thread is stopping the child
         child : {"none", "alive", "gone"},
         cancelled : BOOLEAN,   \* state["cancelled"]
         claimed : BOOLEAN,     \* state["cleanup_claimed"]
         slot : SlotStates,
         cut : BOOLEAN]         \* history: cancelled while awaiting the stop

TypeOK ==
    /\ free \in 0 .. MaxProcesses
    /\ returning \subseteq Calls
    /\ call \in [Calls -> Call]

Init ==
    /\ free = MaxProcesses
    /\ returning = {}
    /\ call = [r \in Calls |->
                 [task |-> "acquire", start |-> "none", stop |-> "none", cleaner |-> FALSE,
                  child |-> "none", cancelled |-> FALSE, claimed |-> FALSE,
                  slot |-> "none", cut |-> FALSE]]

---------------------------------------------------------------------------
(* SlotHandle *)

\* handle.transfer() and handle.untransfer()
Transferred(c) == IF c.slot = "released" THEN c ELSE [c EXCEPT !.slot = "thread"]
Untransferred(c) == IF c.slot = "released" THEN c ELSE [c EXCEPT !.slot = "task"]

\* Call r becomes c and its task leaves: handle.release() in its finally.
LeaveMutant(r, c) ==
    /\ call' = [call EXCEPT ![r] = [c EXCEPT !.task = "left", !.slot = "released"]]
    /\ free' = IF c.slot \in {"task", "thread"} THEN free + 1 ELSE free
Leave(r, c) ==
    IF c.slot = "task"
    THEN /\ call' = [call EXCEPT ![r] = [c EXCEPT !.task = "left", !.slot = "released"]]
         /\ free' = free + 1
    ELSE /\ call' = [call EXCEPT ![r] = [c EXCEPT !.task = "left"]]
         /\ UNCHANGED free

\* Call r becomes c and a thread runs handle.release_from_thread().
ReleaseFromThreadMutant(r, c) ==
    /\ call' = [call EXCEPT ![r] = c]
    /\ returning' = returning \cup {r}
    /\ UNCHANGED free
ReleaseFromThread(r, c) ==
    /\ call' = [call EXCEPT ![r] = [c EXCEPT !.slot = "released"]]
    /\ returning' = IF c.slot = "released" THEN returning ELSE returning \cup {r}
    /\ UNCHANGED free

\* The event loop runs the semaphore's release.
Return(r) ==
    /\ r \in returning
    /\ returning' = returning \ {r}
    /\ free' = free + 1
    /\ UNCHANGED call

---------------------------------------------------------------------------
(* The pool thread that starts the child: _start_process *)

Begin(r) ==
    /\ call[r].start = "queued"
    /\ call' = [call EXCEPT ![r].start = "running"]
    /\ UNCHANGED <<free, returning>>

Fork(r) ==
    /\ call[r].start = "running"
    /\ call' = [call EXCEPT ![r] = [@ EXCEPT !.start = "forked", !.child = "alive"]]
    /\ UNCHANGED <<free, returning>>

\* process.start() raised: there is no child.
StartFails(r) ==
    LET c == call[r]
        mine == StartHoldsSlot /\ c.cancelled /\ ~c.claimed
        failed == [c EXCEPT !.start = "failed", !.claimed = c.claimed \/ mine]
    IN
    /\ c.start = "running"
    /\ IF mine THEN ReleaseFromThread(r, failed)
       ELSE call' = [call EXCEPT ![r] = failed] /\ UNCHANGED <<free, returning>>

\* Under state_lock: the thread hands the child to the task, or finds that
\* the task was cancelled and keeps it for itself.
PublishedMutant(c) == [c EXCEPT !.start = "done"]
Published(c) ==
    IF c.cancelled /\ ~c.claimed
    THEN [c EXCEPT !.start = "reaping", !.claimed = TRUE]
    ELSE [c EXCEPT !.start = "done"]

Publish(r) ==
    /\ call[r].start = "forked"
    /\ call' = [call EXCEPT ![r] = Published(@)]
    /\ UNCHANGED <<free, returning>>

\* The start thread reaps the child it kept, then returns the slot.
Reap(r) ==
    LET c == [call[r] EXCEPT !.start = "done", !.child = "gone"]
    IN
    /\ call[r].start = "reaping"
    /\ IF StartHoldsSlot THEN ReleaseFromThread(r, c)
       ELSE call' = [call EXCEPT ![r] = c] /\ UNCHANGED <<free, returning>>

---------------------------------------------------------------------------
(* The other threads, and the child *)

\* A pool thread takes _stop_process.
BeginStop(r) ==
    /\ call[r].stop = "queued"
    /\ call' = [call EXCEPT ![r].stop = "running"]
    /\ UNCHANGED <<free, returning>>

\* ... and has terminated, killed and joined the child.
EndStop(r) ==
    /\ call[r].stop = "running"
    /\ call' = [call EXCEPT ![r] = [@ EXCEPT !.stop = "done", !.child = "gone"]]
    /\ UNCHANGED <<free, returning>>

\* The cleanup thread has stopped the child and returns the slot.
CleanUp(r) ==
    /\ call[r].cleaner
    /\ ReleaseFromThread(r, [call[r] EXCEPT !.cleaner = FALSE, !.child = "gone"])

\* The child ends by itself: it is done, or it crashed.
Exit(r) ==
    /\ call[r].child = "alive"
    /\ call[r].start \in {"forked", "done"}
    /\ call' = [call EXCEPT ![r].child = "gone"]
    /\ UNCHANGED <<free, returning>>

---------------------------------------------------------------------------
(* The awaiting task *)

\* A slot is taken and the start thread's job goes to the pool.
Acquire(r) ==
    /\ call[r].task = "acquire"
    /\ free > 0
    /\ free' = free - 1
    /\ call' = [call EXCEPT ![r] = [@ EXCEPT !.task = "start", !.start = "queued", !.slot = "task"]]
    /\ UNCHANGED returning

\* The start thread returned: poll for the result.
Started(r) ==
    /\ call[r].task = "start"
    /\ call[r].start = "done"
    /\ call' = [call EXCEPT ![r].task = "poll"]
    /\ UNCHANGED <<free, returning>>

\* The start thread raised: there is nothing to stop.
NotStarted(r) ==
    /\ call[r].task = "start"
    /\ call[r].start = "failed"
    /\ Leave(r, call[r])
    /\ UNCHANGED returning

\* A result, an error or a dead child: the finally stops the child.
Collect(r) ==
    /\ call[r].task = "poll"
    /\ call' = [call EXCEPT ![r] = [@ EXCEPT !.task = "stop", !.stop = "queued"]]
    /\ UNCHANGED <<free, returning>>

\* The stop thread is done.
Stopped(r) ==
    /\ call[r].task = "stop"
    /\ call[r].stop = "done"
    /\ Leave(r, call[r])
    /\ UNCHANGED returning

\* The pool drops a job whose await is cancelled, unless a thread has it.
\* (The job may still be picked up before the future's callback runs.)
Dropped(job) == IF job = "queued" THEN {"queued", "dropped"} ELSE {job}

CancelAcquireMutant(r) ==
    /\ call[r].task = "acquire"
    /\ Leave(r, [call[r] EXCEPT !.slot = "task"])
    /\ UNCHANGED returning
CancelAcquire(r) ==
    /\ call[r].task = "acquire"
    /\ Leave(r, call[r])
    /\ UNCHANGED returning

\* _defer_cleanup: a cleanup thread takes the child and the slot; without
\* one the child is stopped here and now.
DeferCleanupMutant(r, c) ==
    /\ \/ Leave(r, [Transferred(c) EXCEPT !.cleaner = TRUE])
       \/ Leave(r, [c EXCEPT !.child = "gone"])
    /\ UNCHANGED returning
DeferCleanup(r, c) ==
    /\ \/ Leave(r, [Transferred(c) EXCEPT !.cleaner = TRUE])
       \/ Leave(r, [Untransferred(c) EXCEPT !.child = "gone"])
    /\ UNCHANGED returning

\* Cancelled while the child is being started.  _isolated.py first transfers
\* the slot to whoever will reap the child.
Held(c) == IF StartHoldsSlot THEN Transferred(c) ELSE c

CancelStart(r) ==
    /\ call[r].task = "start"
    /\ \E job \in Dropped(call[r].start) :
         LET c == [Held(call[r]) EXCEPT !.start = job, !.cancelled = TRUE]
         IN  IF c.start = "done" /\ ~c.claimed
             THEN DeferCleanup(r, [c EXCEPT !.claimed = TRUE])
             ELSE IF StartHoldsSlot /\ c.start = "failed" /\ ~c.claimed
             THEN ReleaseFromThread(r, [c EXCEPT !.claimed = TRUE, !.task = "left"])
             ELSE Leave(r, c) /\ UNCHANGED returning

\* Cancelled while sending the task or polling: a cleanup thread stops the
\* child, or, when there is none, the pool does and the task waits for it.
CancelPollMutant(r) ==
    /\ call[r].task = "poll"
    /\ \/ Leave(r, [Transferred(call[r]) EXCEPT !.cleaner = TRUE])
       \/ Leave(r, Transferred(call[r]))
    /\ UNCHANGED returning
CancelPoll(r) ==
    /\ call[r].task = "poll"
    /\ \/ Leave(r, [Transferred(call[r]) EXCEPT !.cleaner = TRUE])
       \/ /\ call' = [call EXCEPT ![r] =
                        [Untransferred(@) EXCEPT !.task = "stop", !.stop = "queued"]]
          /\ UNCHANGED free
    /\ UNCHANGED returning

\* Cancelled while the pool stops the child.
CancelStop(r) ==
    /\ call[r].task = "stop"
    /\ \E job \in Dropped(call[r].stop) :
           Leave(r, [call[r] EXCEPT !.stop = job, !.cut = TRUE])
    /\ UNCHANGED returning

Cancel(r) == CancelAcquire(r) \/ CancelStart(r) \/ CancelPoll(r) \/ CancelStop(r)

Thread(r) ==
    Begin(r) \/ Fork(r) \/ StartFails(r) \/ Publish(r) \/ Reap(r)
    \/ BeginStop(r) \/ EndStop(r) \/ CleanUp(r)
Task(r) == Acquire(r) \/ Started(r) \/ NotStarted(r) \/ Collect(r) \/ Stopped(r) \/ Return(r)

Next == \E r \in Calls : Thread(r) \/ Exit(r) \/ Task(r) \/ Cancel(r)

Spec == Init /\ [][Next]_vars

\* Threads run, a callback scheduled on the loop runs, a resumed task runs,
\* and each call is cancelled by its own asyncio.timeout if nothing else ends
\* it.  Nothing makes a child end by itself.
Fairness == \A r \in Calls :
    /\ WF_vars(Thread(r))
    /\ WF_vars(Return(r))
    /\ WF_vars(NotStarted(r) \/ Stopped(r))
    /\ WF_vars(Cancel(r))
FairSpec == Spec /\ Fairness

---------------------------------------------------------------------------
(* Correctness *)

InHand == {r \in Calls : call[r].slot \in {"task", "thread"}}

\* Each slot is in the semaphore, held by one call or on its way back, once:
\* whichever of task, start thread and cleanup thread ends last, none gives a
\* slot back twice, so the pool is never over-credited.
SlotsConserved ==
    /\ free + Cardinality(InHand) + Cardinality(returning) = MaxProcesses
    /\ \A r \in returning : call[r].slot = "released"

HasChild(r) == call[r].child = "alive" \/ call[r].start \in {"running", "forked", "reaping"}

\* A slot is only given back when its child is gone and no thread is about to
\* start one, whenever the cancellation strikes, except during the final stop.
SlotCoversChild ==
    \A r \in Calls : HasChild(r) /\ call[r].slot = "released" => call[r].cut

\* However its call ends, a slot comes back and its child is stopped by
\* somebody, except when the pool dropped the job that was to do it.  Each call
\* is made once: that everything is cleaned up again and again says that each
\* call is.
CleanupCompletes ==
    []<>(\A r \in Calls :
            /\ call[r].slot \in {"task", "thread"} \/ r \in returning => call[r].start = "dropped"
            /\ call[r].child = "alive" => call[r].stop = "dropped")

\* A slot comes back however its call ends.
EverySlotComesBack ==
    []<>(\A r \in Calls : call[r].slot \notin {"task", "thread"})

\* Never more children than the semaphore permits.
ChildrenWithinSlots ==
    Cardinality({r \in Calls : call[r].child = "alive"}) <= MaxProcesses

=============================================================================
